---- MODULE Spec2Model ----
(***************************************************************************)
(* Model of the OAuth token lifecycle of pleiad (src/src/oauth.ts):        *)
(* OAuthManager.handleCallback, getAuthorizationUrl, getToken,             *)
(* refreshToken and revokeToken, run as concurrent async calls that        *)
(* interleave at their await points, against an in-memory token store, a   *)
(* nondeterministic upstream token endpoint and a refresh publisher.       *)
(*                                                                         *)
(* Absent JavaScript values are modelled by the falsy value of their type: *)
(* "" for an absent string, 0 for an absent number.                        *)
(***************************************************************************)
EXTENDS Integers, Sequences, FiniteSets, TLC

VARIABLES
    store,              \* tokenStore: <<tenant, provider, account>> -> Token or NoToken
    codeVerifiers,      \* OAuthManager.codeVerifiers: set of [state, verifier]
    registeredClients,  \* OAuthManager.registeredClients: provider -> client id or ""
    now,                \* Date.now()
    nonce,              \* number of random states generated so far
    minted,             \* number of token responses the upstream has produced
    issued,             \* history: each state handed out in an authorization URL ->
                        \* the number of token exchanges sent for it (counted to 2)
    handedOut,          \* history: each state handed out in an authorization URL ->
                        \* the client_id of that URL and the provider and user
                        \* getAuthorizationUrl was called with
    procs,              \* the calls in progress, one record per slot
    sessions,           \* MCPClient.sessions: <<userId, providerId>> -> session id or ""
    handshakes,         \* history: <<userId, providerId>> -> the number of initialize
                        \* handshakes that succeeded (counted to 2) and the first
                        \* session id that was cached
    inboundSigningKey,  \* the key handleOAuthRefresh was built with, "" when unset
    frames              \* the callers of the manager in progress, one per slot: an
                        \* inbound refresh request or a call of the session gateway

vars ==
    <<store, codeVerifiers, registeredClients, now, nonce, minted, issued, handedOut,
      procs, sessions, handshakes, inboundSigningKey, frames>>

\* The state of the callers of OAuthManager
callerVars == <<sessions, handshakes, inboundSigningKey, frames>>

----------------------------------------------------------------------------
(* Bounds of the model *)

MaxTicks == 1
MaxNonce == 1
MaxMinted == 1
MaxBodyLen == 2
MaxIssued == 2
MaxUrls == 2

(* Program constants *)

DefaultLeadMs == 600000
MsPerSecond == 1000

(* Scales of the model: the clock starts one token lifetime after the seed
   token was issued and advances by two token lifetimes *)

StartTime == 3600 * MsPerSecond
TickMs == 7200 * MsPerSecond

SigningKeys == {"", "k1"}

Procs == {"p1", "p2"}
SeqProcs == {"p1"}
Users == {"u1"}
Codes == {"c1"}
BaseUrl == "https://gw"

OAuthProviders == {"alpha", "beta"}
ProviderIds == OAuthProviders \cup {"gamma"}
\* Two more OAuth configurations, for the resolution of the client id: delta
\* has neither a clientId nor a registrationUrl, epsilon has both
ConfiguredOAuth == OAuthProviders \cup {"delta", "epsilon"}

\* getSessionKey(userId, providerId) for the pairs the gateway is asked about
SessionKeys == Users \X ProviderIds

\* this.providers: the configured ProviderConfig of each provider id
NoOAuth ==
    [usePKCE |-> FALSE, clientId |-> "", clientSecret |-> "", registrationUrl |-> "",
     tokenUrl |-> "", authUrl |-> ""]

ProviderCfg(id) ==
    CASE id = "alpha" ->
           [id |-> id, hasOAuth |-> TRUE, hasLead |-> FALSE, leadMs |-> 0,
            oauth |-> [usePKCE |-> TRUE, clientId |-> "",
                       clientSecret |-> "sec-alpha", registrationUrl |-> "alpha/register",
                       tokenUrl |-> "alpha/token", authUrl |-> "alpha/authorize"]]
      [] id = "beta" ->
           [id |-> id, hasOAuth |-> TRUE, hasLead |-> TRUE, leadMs |-> 9000000,
            oauth |-> [usePKCE |-> FALSE, clientId |-> "cid-beta",
                       clientSecret |-> "sec-beta", registrationUrl |-> "",
                       tokenUrl |-> "beta/token", authUrl |-> "beta/authorize"]]
      [] id = "gamma" ->
           [id |-> id, hasOAuth |-> FALSE, hasLead |-> FALSE, leadMs |-> 0,
            oauth |-> NoOAuth]
      [] id = "delta" ->
           [id |-> id, hasOAuth |-> TRUE, hasLead |-> FALSE, leadMs |-> 0,
            oauth |-> [usePKCE |-> FALSE, clientId |-> "",
                       clientSecret |-> "", registrationUrl |-> "",
                       tokenUrl |-> "delta/token", authUrl |-> "delta/authorize"]]
      [] id = "epsilon" ->
           [id |-> id, hasOAuth |-> TRUE, hasLead |-> FALSE, leadMs |-> 0,
            oauth |-> [usePKCE |-> TRUE, clientId |-> "cid-epsilon",
                       clientSecret |-> "", registrationUrl |-> "epsilon/register",
                       tokenUrl |-> "epsilon/token", authUrl |-> "epsilon/authorize"]]
      [] OTHER ->
           [id |-> "", hasOAuth |-> FALSE, hasLead |-> FALSE, leadMs |-> 0,
            oauth |-> NoOAuth]

----------------------------------------------------------------------------
(* Values *)

NonceStr(n) == <<"n1", "n2", "n3", "n4", "n5">>[n]
VerifierStr(n) == <<"v1", "v2", "v3", "v4", "v5">>[n]
AccessStr(n) == <<"at1", "at2", "at3", "at4", "at5">>[n]
RefreshStr(n) == <<"rt1", "rt2", "rt3", "rt4", "rt5">>[n]

\* Token (src/src/types.ts); NoToken is the store's null
NoToken ==
    [accessToken |-> "", refreshToken |-> "", expiresAt |-> 0, issuedAt |-> 0,
     tokenType |-> ""]

\* The in-memory TokenStore (a Map keyed by tenant, provider and account);
\* getToken defaults accountId to "default" and answers null for a missing key
StoreGet(s, tenant, provider) ==
    IF <<tenant, provider, "default">> \in DOMAIN s
    THEN s[<<tenant, provider, "default">>] ELSE NoToken

StoreSet(s, tenant, provider, account, token) ==
    (<<tenant, provider, account>> :> token) @@ s

\* Variant: the record is left on file
StoreRevokeNothing(s, tenant, provider, account) == s

StoreRevoke(s, tenant, provider, account) ==
    [k \in DOMAIN s \ {<<tenant, provider, account>>} |-> s[k]]

----------------------------------------------------------------------------
(* The computations of OAuthManager *)

Max(a, b) == IF a >= b THEN a ELSE b

\* The segments of a user id between its ":" characters
Segs(userId) == IF userId = "u1:x" THEN <<"u1", "x">> ELSE <<userId>>

\* `${providerId}:${userId}:${randomState}`, as its ":"-separated segments
MakeState(providerId, userId, rnd) == <<providerId>> \o Segs(userId) \o <<rnd>>

\* Variant: a state without a second segment is given a placeholder user
ParseStateLenient(state) ==
    [providerId |-> IF Len(state) >= 1 THEN state[1] ELSE "",
     userId |-> IF Len(state) >= 2 THEN state[2] ELSE "anonymous"]

\* const [providerId, userId] = state.split(":")
ParseState(state) ==
    [providerId |-> IF Len(state) >= 1 THEN state[1] ELSE "",
     userId |-> IF Len(state) >= 2 THEN state[2] ELSE ""]

\* this.registeredClients.get(providerId) || oauthSpec.clientId
CallbackClientId(registered, oauthSpec) ==
    IF registered # "" THEN registered ELSE oauthSpec.clientId

\* this.codeVerifiers.get(state), "" when there is none
VerifierOf(verifiers, state) ==
    IF \E e \in verifiers : e.state = state
    THEN (CHOOSE e \in verifiers : e.state = state).verifier
    ELSE ""

\* Variant: code_verifier is added whether or not the provider uses PKCE
ExchangeParamsAlwaysVerifier(oauthSpec, code, clientId, verifier) ==
    [grant_type |-> "authorization_code", code |-> code, client_id |-> clientId,
     redirect_uri |-> <<BaseUrl, "/oauth/callback">>, code_verifier |-> verifier]

\* tokenParams of the authorization-code exchange
ExchangeParams(oauthSpec, code, clientId, verifier) ==
    LET base == [grant_type |-> "authorization_code", code |-> code,
                 client_id |-> clientId, redirect_uri |-> <<BaseUrl, "/oauth/callback">>]
        secret == IF oauthSpec.clientSecret # "" /\ ~oauthSpec.usePKCE
                  THEN [client_secret |-> oauthSpec.clientSecret] ELSE <<>>
        pkce == IF oauthSpec.usePKCE THEN [code_verifier |-> verifier] ELSE <<>>
    IN  base @@ secret @@ pkce

\* the URLSearchParams of the refresh exchange
RefreshParams(oauthSpec, token) ==
    [grant_type |-> "refresh_token", refresh_token |-> token.refreshToken,
     client_id |-> oauthSpec.clientId, client_secret |-> oauthSpec.clientSecret]

ExpiresAtOf(data, t) ==
    IF data.expires_in # 0 THEN t + data.expires_in * MsPerSecond ELSE 0

TokenTypeOf(data) == IF data.token_type # "" THEN data.token_type ELSE "Bearer"

\* const token: Token = {...} of handleCallback
TokenFromExchange(data, t) ==
    [accessToken |-> data.access_token, refreshToken |-> data.refresh_token,
     expiresAt |-> ExpiresAtOf(data, t), tokenType |-> TokenTypeOf(data),
     issuedAt |-> t]

\* Variant: the refresh token is taken from the response alone
TokenFromRefreshNoRetain(data, prior, t) ==
    [accessToken |-> data.access_token, refreshToken |-> data.refresh_token,
     expiresAt |-> ExpiresAtOf(data, t), tokenType |-> TokenTypeOf(data),
     issuedAt |-> t]

\* const newToken: Token = {...} of refreshToken
TokenFromRefresh(data, prior, t) ==
    [accessToken |-> data.access_token,
     refreshToken |-> IF data.refresh_token # "" THEN data.refresh_token
                      ELSE prior.refreshToken,
     expiresAt |-> ExpiresAtOf(data, t), tokenType |-> TokenTypeOf(data),
     issuedAt |-> t]

\* Variant: the provider's configured lead time is ignored
LeadAlwaysDefault(provider) == DefaultLeadMs

\* provider?.refresh?.leadMs ?? 600_000
LeadOf(provider) == IF provider.hasLead THEN provider.leadMs ELSE DefaultLeadMs

\* Math.max(0, token.expiresAt - lead)
RunAt(expiresAt, lead) == Max(0, expiresAt - lead)

\* the ScheduleInput handed to publisher.scheduleRefresh
ScheduleInput(userId, providerId, token) ==
    [userId |-> userId, providerId |-> providerId, accountId |-> "default",
     runAt |-> RunAt(token.expiresAt, LeadOf(ProviderCfg(providerId)))]

\* Variant: only the presence of a token is checked
HasToken(token) == token # NoToken

\* token?.refreshToken is truthy
HasRefreshToken(token) == token.refreshToken # ""

\* Variant: a token expiring at this very millisecond counts as expired
IsExpiredInclusive(token, t) == token.expiresAt # 0 /\ token.expiresAt <= t

\* Variant: the comparison is the wrong way round
IsExpiredFlipped(token, t) == token.expiresAt # 0 /\ token.expiresAt > t

\* token.expiresAt && token.expiresAt < Date.now()
IsExpired(token, t) == token.expiresAt # 0 /\ token.expiresAt < t

----------------------------------------------------------------------------
(* The upstream token endpoint: the n-th token response it produces *)

NoData == [access_token |-> "", refresh_token |-> "", expires_in |-> 0, token_type |-> ""]

ExpiresInValues == {0, 3600}

TokenResponses(n) ==
    {[access_token |-> AccessStr(n), refresh_token |-> r, expires_in |-> e,
      token_type |-> ""] : r \in {"", RefreshStr(n)}, e \in ExpiresInValues}

RejectStatuses == {400}

----------------------------------------------------------------------------
(* Calls in progress *)

IdleProc ==
    [op |-> "idle", pc |-> "idle", userId |-> "", providerId |-> "", code |-> "",
     state |-> <<>>, tok |-> NoToken, prior |-> NoToken, data |-> NoData,
     reqs |-> <<>>, writes |-> <<>>, scheds |-> <<>>, regs |-> 0,
     result |-> NoToken, url |-> <<>>, err |-> "", status |-> 0]

Finished(p) == procs[p].pc \in {"done", "failed"}

\* The caller in slot p has answered: an HTTP response is ready, or the
\* gateway call has returned or thrown
Answered(p) == frames[p].pc \in {"responded", "done", "failed"}

\* A finished call is returned to its caller before anything else runs
Quiet == \A q \in Procs : ~Finished(q) /\ ~Answered(q)

\* The call in slot p is suspended at the await point pc
At(p, pc) == Quiet /\ procs[p].pc = pc

\* The slot p can take a new call
Free(p) == At(p, "idle") /\ frames[p].pc = "idle"

Call(op, userId, providerId) ==
    [IdleProc EXCEPT !.op = op, !.userId = userId, !.providerId = providerId]

\* A caller in progress. call is the manager call it awaited last, scheds the
\* scheduleRefresh inputs it sent itself, reqs its requests to the provider's
\* MCP endpoint, todo the rest of the list its loop runs over, opened the URLs
\* it handed to open(), tools its aggregatedTools and results the results of
\* the tools it ran
IdleFrame ==
    [op |-> "idle", pc |-> "idle", userId |-> "", providerId |-> "", accountId |-> "",
     sig |-> <<>>, body |-> <<>>, verified |-> FALSE, refreshes |-> 0,
     call |-> IdleProc, scheds |-> <<>>, status |-> 0, reply |-> <<>>,
     sessionId |-> "", cached |-> "", token |-> NoToken, reqs |-> <<>>,
     ctype |-> "", text |-> <<>>, decoded |-> <<>>, result |-> <<>>, err |-> "",
     statuses |-> <<>>, selected |-> <<>>, missingAuth |-> <<>>, authUrls |-> <<>>,
     todo |-> <<>>, opened |-> <<>>, tools |-> <<>>, results |-> <<>>]

\* The caller in slot p awaits a call of the manager that runs in the same slot
Owned(p) ==
    frames[p].pc \in {"refresh", "reauth", "init_token", "call_token",
                      "status_token", "gate_token", "gate_url"}

Fail(rec, code, status) ==
    [rec EXCEPT !.pc = "failed", !.err = code, !.status = status]

\* A token a previous run of the gateway left in the persistent store: issued at
\* time 0 for an hour, with a refresh token
SeedToken ==
    [accessToken |-> "at0", refreshToken |-> "rt0", expiresAt |-> 3600 * MsPerSecond,
     issuedAt |-> 0, tokenType |-> "Bearer"]

\* The store when the gateway starts: another tenant's token is on file, and
\* the user's own token for the first provider may be
InitStores ==
    {(<<"u2", "beta", "default">> :> SeedToken),
     (<<"u2", "beta", "default">> :> SeedToken) @@ (<<"u1", "alpha", "default">> :> SeedToken)}

\* The manager with the client ids in clients cached
InitManagerWith(clients) ==
    /\ store \in InitStores
    /\ codeVerifiers = {}
    /\ registeredClients = clients
    /\ now = StartTime
    /\ nonce = 0
    /\ minted = 0
    /\ issued = <<>>
    /\ handedOut = <<>>
    /\ procs = [p \in Procs |-> IdleProc]

\* new OAuthManager(tokenStore, providers, baseUrl, publisher)
InitManager == InitManagerWith([id \in ConfiguredOAuth |-> ""])

\* new MCPClient(oauthManager) and handleOAuthRefresh(..., key), key being
\* process.env.INBOUND_SIGNING_KEY || ''
InitCallers(keys) ==
    /\ sessions = [k \in SessionKeys |-> ""]
    /\ handshakes = [k \in SessionKeys |-> [ok |-> 0, first |-> ""]]
    /\ inboundSigningKey \in keys
    /\ frames = [p \in Procs |-> IdleFrame]

\* The gateway starts with an inbound signing key configured
Init == InitManager /\ InitCallers({"k1"})

\* The gateway starts with or without an inbound signing key
InitAnyKey == InitManager /\ InitCallers(SigningKeys)

----------------------------------------------------------------------------
(* handleCallback(code, state): the synchronous part up to the fetch *)

ForgedStates ==
    {<<"alpha">>, <<"", "u1", "n0">>, <<"gamma", "u1", "n0">>, <<"zeta", "u1", "n0">>,
     <<"alpha", "u1", "n0">>, <<"beta", "u1", "n0">>}

\* The states a callback may carry: one handed out earlier, or a forged one
CallbackStates == DOMAIN issued \cup ForgedStates

\* Variant: the verifier is left in the table
KeepVerifier(verifiers, state) == verifiers

\* Variant: every entry but the one of this state is deleted
DeleteOthers(verifiers, state) == {e \in verifiers : e.state = state}

\* this.codeVerifiers.delete(state)
ConsumeVerifier(verifiers, state) == {e \in verifiers : e.state # state}

\* Variant: tenant and provider are passed to setToken in the wrong order
PersistTokenSwapped(s, userId, providerId, token) ==
    StoreSet(s, providerId, userId, "default", token)

\* tokenStore.setToken(userId, providerId, "default", token)
PersistToken(s, userId, providerId, token) ==
    StoreSet(s, userId, providerId, "default", token)

CountExchange(state) ==
    IF state \in DOMAIN issued
    THEN [issued EXCEPT ![state] = IF @ >= 2 THEN 2 ELSE @ + 1]
    ELSE issued

HandleCallback(p, code, state) ==
    /\ Free(p)
    /\ LET ps == ParseState(state)
           provider == ProviderCfg(ps.providerId)
           oauthSpec == provider.oauth
           rec == [Call("handleCallback", ps.userId, ps.providerId)
                     EXCEPT !.code = code, !.state = state]
           clientId == CallbackClientId(registeredClients[ps.providerId], oauthSpec)
           codeVerifier == VerifierOf(codeVerifiers, state)
       IN  IF ps.providerId = "" \/ ps.userId = ""
           THEN /\ procs' = [procs EXCEPT ![p] = Fail(rec, "INVALID_STATE", 0)]
                /\ UNCHANGED <<codeVerifiers, issued, handedOut>>
           ELSE IF ~provider.hasOAuth
           THEN /\ procs' = [procs EXCEPT ![p] = Fail(rec, "UNKNOWN_PROVIDER", 0)]
                /\ UNCHANGED <<codeVerifiers, issued, handedOut>>
           ELSE IF clientId = ""
           THEN /\ procs' = [procs EXCEPT ![p] = Fail(rec, "NO_CLIENT_ID", 0)]
                /\ UNCHANGED <<codeVerifiers, issued, handedOut>>
           ELSE IF oauthSpec.usePKCE /\ codeVerifier = ""
           THEN /\ procs' = [procs EXCEPT ![p] = Fail(rec, "MISSING_CODE_VERIFIER", 0)]
                /\ UNCHANGED <<codeVerifiers, issued, handedOut>>
           ELSE /\ codeVerifiers' =
                     IF oauthSpec.usePKCE
                     THEN ConsumeVerifier(codeVerifiers, state)
                     ELSE codeVerifiers
                /\ issued' = CountExchange(state)
                /\ UNCHANGED handedOut
                /\ procs' = [procs EXCEPT ![p] =
                     [rec EXCEPT !.pc = "hc_fetch",
                                 !.reqs = <<[url |-> oauthSpec.tokenUrl,
                                             body |-> ExchangeParams(oauthSpec, code,
                                                        clientId, codeVerifier)]>>]]
    /\ UNCHANGED <<store, registeredClients, now, nonce, minted>>
    /\ UNCHANGED callerVars

\* response.ok: the token is built and handed to tokenStore.setToken
HcExchangeOk(p, data) ==
    /\ At(p, "hc_fetch")
    /\ minted < MaxMinted
    /\ data \in TokenResponses(minted + 1)
    /\ LET rec == procs[p]
           token == TokenFromExchange(data, now)
       IN  /\ store' = PersistToken(store, rec.userId, rec.providerId, token)
           /\ procs' = [procs EXCEPT ![p] =
                [rec EXCEPT !.pc = "stored", !.data = data, !.result = token,
                            !.writes = Append(@, <<rec.userId, rec.providerId, "default">>)]]
    /\ minted' = minted + 1
    /\ UNCHANGED <<codeVerifiers, registeredClients, now, nonce, issued, handedOut>>
    /\ UNCHANGED callerVars

\* !response.ok
\* Variant: a rejected exchange is sent once more before the call gives up
HcExchangeRejectedRetrying(p, status) ==
    /\ At(p, "hc_fetch")
    /\ procs' = [procs EXCEPT ![p] =
         IF Len(@.reqs) < 2
         THEN [@ EXCEPT !.reqs = Append(@, Head(@))]
         ELSE Fail(@, "TOKEN_EXCHANGE_FAILED", status)]
    /\ UNCHANGED <<store, codeVerifiers, registeredClients, now, nonce, minted, issued, handedOut>>
    /\ UNCHANGED callerVars

HcExchangeRejected(p, status) ==
    /\ At(p, "hc_fetch")
    /\ procs' = [procs EXCEPT ![p] = Fail(@, "TOKEN_EXCHANGE_FAILED", status)]
    /\ UNCHANGED <<store, codeVerifiers, registeredClients, now, nonce, minted, issued, handedOut>>
    /\ UNCHANGED callerVars

\* fetch rejects: the exception carries no code
FetchFailed(p) ==
    /\ (At(p, "hc_fetch") \/ At(p, "rt_fetch"))
    /\ procs' = [procs EXCEPT ![p] = Fail(@, "", 0)]
    /\ UNCHANGED <<store, codeVerifiers, registeredClients, now, nonce, minted, issued, handedOut>>
    /\ UNCHANGED callerVars

\* if (token.expiresAt) { ... await this.publisher.scheduleRefresh(...) }
ScheduleNext(p) ==
    /\ At(p, "stored")
    /\ LET rec == procs[p]
       IN  procs' = [procs EXCEPT ![p] =
             IF rec.result.expiresAt # 0
             THEN [rec EXCEPT !.pc = "publish",
                              !.scheds = Append(@, ScheduleInput(rec.userId,
                                                     rec.providerId, rec.result))]
             ELSE [rec EXCEPT !.pc = "done"]]
    /\ UNCHANGED <<store, codeVerifiers, registeredClients, now, nonce, minted, issued, handedOut>>
    /\ UNCHANGED callerVars

PublishOk(p) ==
    /\ At(p, "publish")
    /\ procs' = [procs EXCEPT ![p].pc = "done"]
    /\ UNCHANGED <<store, codeVerifiers, registeredClients, now, nonce, minted, issued, handedOut>>
    /\ UNCHANGED callerVars

\* Variant: a failed publish puts the store back as it was before the write
PublishFailedRollback(p) ==
    /\ At(p, "publish")
    /\ LET rec == procs[p]
       IN  store' = IF rec.prior = NoToken
                    THEN StoreRevoke(store, rec.userId, rec.providerId, "default")
                    ELSE StoreSet(store, rec.userId, rec.providerId, "default", rec.prior)
    /\ procs' = [procs EXCEPT ![p] = Fail(@, "", 0)]
    /\ UNCHANGED <<codeVerifiers, registeredClients, now, nonce, minted, issued, handedOut>>
    /\ UNCHANGED callerVars

\* InngestPublisher: throw new Error(`Inngest publish failed: ...`)
PublishFailed(p) ==
    /\ At(p, "publish")
    /\ procs' = [procs EXCEPT ![p] = Fail(@, "", 0)]
    /\ UNCHANGED <<store, codeVerifiers, registeredClients, now, nonce, minted, issued, handedOut>>
    /\ UNCHANGED callerVars

----------------------------------------------------------------------------
(* getToken, refreshToken, revokeToken *)

\* getToken up to its first await: the store read is under way
GetTokenCall(userId, providerId) ==
    [Call("getToken", userId, providerId)
       EXCEPT !.pc = "gt_read", !.tok = StoreGet(store, userId, providerId)]

GetToken(p, userId, providerId) ==
    /\ Free(p)
    /\ procs' = [procs EXCEPT ![p] = GetTokenCall(userId, providerId)]
    /\ UNCHANGED <<store, codeVerifiers, registeredClients, now, nonce, minted, issued, handedOut>>
    /\ UNCHANGED callerVars

GetTokenAfterRead(p) ==
    /\ At(p, "gt_read")
    /\ LET rec == procs[p]
       IN  procs' = [procs EXCEPT ![p] =
             IF rec.tok = NoToken
             THEN [rec EXCEPT !.pc = "done", !.result = NoToken]
             ELSE IF IsExpired(rec.tok, now)
             THEN [rec EXCEPT !.pc = "rt_read",
                              !.prior = StoreGet(store, rec.userId, rec.providerId)]
             ELSE [rec EXCEPT !.pc = "done", !.result = rec.tok]]
    /\ UNCHANGED <<store, codeVerifiers, registeredClients, now, nonce, minted, issued, handedOut>>
    /\ UNCHANGED callerVars

\* refreshToken up to its first await: the store read is under way
RefreshTokenCall(userId, providerId) ==
    [Call("refreshToken", userId, providerId)
       EXCEPT !.pc = "rt_read", !.prior = StoreGet(store, userId, providerId)]

RefreshToken(p, userId, providerId) ==
    /\ Free(p)
    /\ procs' = [procs EXCEPT ![p] = RefreshTokenCall(userId, providerId)]
    /\ UNCHANGED <<store, codeVerifiers, registeredClients, now, nonce, minted, issued, handedOut>>
    /\ UNCHANGED callerVars

RefreshAfterRead(p) ==
    /\ At(p, "rt_read")
    /\ LET rec == procs[p]
           provider == ProviderCfg(rec.providerId)
       IN  procs' = [procs EXCEPT ![p] =
             IF ~HasRefreshToken(rec.prior)
             THEN Fail(rec, "NO_REFRESH_TOKEN", 0)
             ELSE IF ~provider.hasOAuth
             THEN Fail(rec, "UNKNOWN_PROVIDER", 0)
             ELSE [rec EXCEPT !.pc = "rt_fetch",
                              !.reqs = Append(@, [url |-> provider.oauth.tokenUrl,
                                                  body |-> RefreshParams(provider.oauth,
                                                                         rec.prior)])]]
    /\ UNCHANGED <<store, codeVerifiers, registeredClients, now, nonce, minted, issued, handedOut>>
    /\ UNCHANGED callerVars

RefreshOk(p, data) ==
    /\ At(p, "rt_fetch")
    /\ minted < MaxMinted
    /\ data \in TokenResponses(minted + 1)
    /\ LET rec == procs[p]
           newToken == TokenFromRefresh(data, rec.prior, now)
       IN  /\ store' = PersistToken(store, rec.userId, rec.providerId, newToken)
           /\ procs' = [procs EXCEPT ![p] =
                [rec EXCEPT !.pc = "stored", !.data = data, !.result = newToken,
                            !.writes = Append(@, <<rec.userId, rec.providerId, "default">>)]]
    /\ minted' = minted + 1
    /\ UNCHANGED <<codeVerifiers, registeredClients, now, nonce, issued, handedOut>>
    /\ UNCHANGED callerVars

\* Variant: a rejected refresh deletes the stored token
RefreshRejectedRevoking(p, status) ==
    /\ At(p, "rt_fetch")
    /\ store' = StoreRevoke(store, procs[p].userId, procs[p].providerId, "default")
    /\ procs' = [procs EXCEPT ![p] = Fail(@, "TOKEN_REFRESH_FAILED", status)]
    /\ UNCHANGED <<codeVerifiers, registeredClients, now, nonce, minted, issued, handedOut>>
    /\ UNCHANGED callerVars

\* if (!response.ok) throw new OAuthError(..., "TOKEN_REFRESH_FAILED", response.status)
RefreshRejected(p, status) ==
    /\ At(p, "rt_fetch")
    /\ procs' = [procs EXCEPT ![p] = Fail(@, "TOKEN_REFRESH_FAILED", status)]
    /\ UNCHANGED <<store, codeVerifiers, registeredClients, now, nonce, minted, issued, handedOut>>
    /\ UNCHANGED callerVars

\* The refresh at the grain of its awaits, for calls that overlap: the token
\* endpoint issues its answer (await fetch), and the caller takes it up later
\* (await response.json(), then the token is built and handed to setToken).
\* Answers are taken up in any order.
UpstreamIssues(p, data) ==
    /\ At(p, "rt_fetch")
    /\ minted < MaxIssued
    /\ data \in TokenResponses(minted + 1)
    /\ procs' = [procs EXCEPT ![p] = [@ EXCEPT !.pc = "rt_issued", !.data = data]]
    /\ minted' = minted + 1
    /\ UNCHANGED <<store, codeVerifiers, registeredClients, now, nonce, issued, handedOut>>
    /\ UNCHANGED callerVars

RefreshReceives(p) ==
    /\ At(p, "rt_issued")
    /\ LET rec == procs[p]
           newToken == TokenFromRefresh(rec.data, rec.prior, now)
       IN  /\ store' = PersistToken(store, rec.userId, rec.providerId, newToken)
           /\ procs' = [procs EXCEPT ![p] =
                [rec EXCEPT !.pc = "stored", !.result = newToken,
                            !.writes = Append(@, <<rec.userId, rec.providerId, "default">>)]]
    /\ UNCHANGED <<codeVerifiers, registeredClients, now, nonce, minted, issued, handedOut>>
    /\ UNCHANGED callerVars

RevokeToken(p, userId, providerId) ==
    /\ Free(p)
    /\ store' = StoreRevoke(store, userId, providerId, "default")
    /\ procs' = [procs EXCEPT ![p] =
         [Call("revokeToken", userId, providerId)
            EXCEPT !.pc = "done", !.prior = StoreGet(store, userId, providerId)]]
    /\ UNCHANGED <<codeVerifiers, registeredClients, now, nonce, minted, issued, handedOut>>
    /\ UNCHANGED callerVars

----------------------------------------------------------------------------
(* getAuthorizationUrl and dynamic client registration *)

\* Variant: the challenge is the verifier itself
CodeChallengePlain(verifier) == <<"plain", verifier>>

\* base64url(SHA-256(verifier)), an injective image of the verifier
CodeChallenge(verifier) == <<"S256", verifier>>

\* the client_id the registration endpoint of a provider answers with
RegisteredClientId(providerId) ==
    IF providerId = "alpha" THEN "dyn-alpha" ELSE "dyn-client"

\* from generateRandomState() to the returned URL
AuthorizationUrl(rec, clientId) ==
    LET provider == ProviderCfg(rec.providerId)
        oauthSpec == provider.oauth
        state == MakeState(rec.providerId, rec.userId, NonceStr(nonce + 1))
        params == [response_type |-> "code", client_id |-> clientId,
                   redirect_uri |-> <<BaseUrl, "/oauth/callback">>, state |-> state]
        pkce == IF oauthSpec.usePKCE
                THEN [code_challenge |-> CodeChallenge(VerifierStr(nonce + 1)),
                      code_challenge_method |-> "S256"]
                ELSE <<>>
    IN  /\ nonce' = nonce + 1
        /\ issued' = (state :> 0) @@ issued
        /\ handedOut' = (state :> [clientId |-> clientId, providerId |-> rec.providerId,
                                   userId |-> rec.userId]) @@ handedOut
        /\ codeVerifiers' =
             IF oauthSpec.usePKCE
             THEN {e \in codeVerifiers : e.state # state}
                    \cup {[state |-> state, verifier |-> VerifierStr(nonce + 1)]}
             ELSE codeVerifiers
        /\ procs' = [procs EXCEPT ![rec.slot] =
             [rec.call EXCEPT !.pc = "done", !.state = state,
                              !.url = <<oauthSpec.authUrl, params @@ pkce>>]]

\* Variant: the cache of registered clients is not consulted
UrlClientIdUncached(oauthSpec, cached) == oauthSpec.clientId

\* let clientId = oauthSpec.clientId; if (!clientId && registrationUrl)
\* clientId = this.registeredClients.get(providerId) || <registration>:
\* the client id known before any registration, "" if none
UrlClientId(oauthSpec, cached) ==
    IF oauthSpec.clientId = "" /\ oauthSpec.registrationUrl # ""
    THEN cached ELSE oauthSpec.clientId

\* getAuthorizationUrl up to its first await, run in slot p
AuthorizationUrlEntry(p, providerId, userId) ==
    /\ LET provider == ProviderCfg(providerId)
           oauthSpec == provider.oauth
           rec == Call("getAuthorizationUrl", userId, providerId)
           needsReg == oauthSpec.clientId = "" /\ oauthSpec.registrationUrl # ""
           clientId == UrlClientId(oauthSpec, registeredClients[providerId])
       IN  IF ~provider.hasOAuth
           THEN /\ procs' = [procs EXCEPT ![p] = Fail(rec, "UNKNOWN_PROVIDER", 0)]
                /\ UNCHANGED <<codeVerifiers, registeredClients, nonce, issued, handedOut>>
           ELSE IF needsReg /\ clientId = ""
           THEN /\ procs' = [procs EXCEPT ![p] = [rec EXCEPT !.pc = "au_register",
                                                             !.regs = 1]]
                /\ UNCHANGED <<codeVerifiers, registeredClients, nonce, issued, handedOut>>
           ELSE IF clientId = ""
           THEN /\ procs' = [procs EXCEPT ![p] = Fail(rec, "NO_CLIENT_ID", 0)]
                /\ UNCHANGED <<codeVerifiers, registeredClients, nonce, issued, handedOut>>
           ELSE /\ nonce < MaxNonce
                /\ AuthorizationUrl([slot |-> p, call |-> rec,
                                     providerId |-> providerId, userId |-> userId],
                                    clientId)
                /\ UNCHANGED registeredClients
    /\ UNCHANGED <<store, now, minted>>

GetAuthorizationUrl(p, providerId, userId) ==
    /\ Free(p)
    /\ AuthorizationUrlEntry(p, providerId, userId)
    /\ UNCHANGED callerVars

\* registerClient: response.ok, the client id is cached and the URL is built
RegisterOk(p) ==
    /\ At(p, "au_register")
    /\ nonce < MaxNonce
    /\ LET rec == procs[p]
           clientId == RegisteredClientId(rec.providerId)
       IN  /\ registeredClients' = [registeredClients EXCEPT ![rec.providerId] = clientId]
           /\ AuthorizationUrl([slot |-> p, call |-> rec, providerId |-> rec.providerId,
                                userId |-> rec.userId], clientId)
    /\ UNCHANGED <<store, now, minted>>
    /\ UNCHANGED callerVars

\* The client ids the registration endpoint may answer with: a new one for
\* each registration request
FreshClientIds == {"dyn-1", "dyn-2"}

\* registerClient with the client id the endpoint answered: data.client_id is
\* cached and the URL is built with it
RegisterAnswered(p, clientId) ==
    /\ At(p, "au_register")
    /\ nonce < MaxUrls
    /\ LET rec == procs[p]
       IN  /\ registeredClients' = [registeredClients EXCEPT ![rec.providerId] = clientId]
           /\ AuthorizationUrl([slot |-> p, call |-> rec, providerId |-> rec.providerId,
                                userId |-> rec.userId], clientId)
    /\ UNCHANGED <<store, now, minted>>
    /\ UNCHANGED callerVars

RegisterRejected(p, status) ==
    /\ At(p, "au_register")
    /\ procs' = [procs EXCEPT ![p] = Fail(@, "REGISTRATION_FAILED", status)]
    /\ UNCHANGED <<store, codeVerifiers, registeredClients, now, nonce, minted, issued, handedOut>>
    /\ UNCHANGED callerVars

----------------------------------------------------------------------------
(* The inbound refresh trigger: POST /oauth/refresh/:providerId *)

\* base64(HMAC-SHA256(key, rawBody)): an injective image of key and body
Hmac(key, bodyText) == <<"hmac", key, bodyText>>

\* c.req.header('X-Signature') || '' when the header is absent
NoSignature == <<>>

\* Request bodies, as the members of the JSON object they spell; <<>> is the
\* empty body
RefreshBodies ==
    {<<>>, <<<<"userId", "u1">>>>, <<<<"userId", "u1">>, <<"accountId", "work">>>>}

\* The value of a member of the parsed body, "" when it has none
Member(bodyText, name) ==
    IF \E i \in 1..Len(bodyText) : bodyText[i][1] = name
    THEN bodyText[CHOOSE i \in 1..Len(bodyText) : bodyText[i][1] = name][2]
    ELSE ""

\* const { userId, accountId = 'default' } = JSON.parse(bodyText || '{}')
ParseRefreshBody(bodyText) ==
    [userId |-> Member(bodyText, "userId"),
     accountId |-> IF Member(bodyText, "accountId") = "" THEN "default"
                   ELSE Member(bodyText, "accountId")]

\* The signatures a request may present: none, the right one, one made with
\* another key, one made for another body
Signatures(bodyText) ==
    {NoSignature, Hmac("k1", bodyText), Hmac("k0", bodyText),
     Hmac("k1", <<<<"userId", "u9">>>>)}

\* Variant: a request is let through unless it presents no signature at all
RejectsUnsigned(key, sig, bodyText) == key # "" /\ sig = NoSignature

\* if (inboundSigningKey) { ... if (expected !== sig) return 401 }
RejectsSignature(key, sig, bodyText) == key # "" /\ Hmac(key, bodyText) # sig

Respond(frame, status, reply) ==
    [frame EXCEPT !.pc = "responded", !.status = status, !.reply = reply]

\* The catch block of the handler: err is the code of what refreshToken threw
RefreshFailed(p, frame, err) ==
    IF err \in {"NO_REFRESH_TOKEN", "TOKEN_REFRESH_FAILED"}
    THEN /\ AuthorizationUrlEntry(p, frame.providerId, frame.userId)
         /\ frames' = [frames EXCEPT ![p] = [frame EXCEPT !.pc = "reauth"]]
    ELSE /\ frames' = [frames EXCEPT ![p] = Respond(frame, 500, [error |-> "unknown"])]
         /\ procs' = [procs EXCEPT ![p] = IdleProc]
         /\ UNCHANGED <<store, codeVerifiers, registeredClients, now, nonce, minted,
                        issued, handedOut>>

\* From the arrival of the request to the call of oauthManager.refreshToken
RouteReceive(p, providerId, bodyText, sig) ==
    /\ Free(p)
    /\ LET frame == [IdleFrame EXCEPT !.op = "refreshRoute", !.providerId = providerId,
                                      !.sig = sig, !.body = bodyText]
           parsed == ParseRefreshBody(bodyText)
       IN  IF RejectsSignature(inboundSigningKey, sig, bodyText)
           THEN /\ frames' = [frames EXCEPT ![p] =
                     Respond(frame, 401, [error |-> "invalid_signature"])]
                /\ UNCHANGED procs
           ELSE IF parsed.userId = "" \/ providerId = ""
           THEN /\ frames' = [frames EXCEPT ![p] =
                     Respond(frame, 400, [error |-> "missing_params"])]
                /\ UNCHANGED procs
           ELSE /\ frames' = [frames EXCEPT ![p] =
                     [frame EXCEPT !.pc = "refresh", !.userId = parsed.userId,
                                   !.accountId = parsed.accountId,
                                   !.verified = (inboundSigningKey # ""),
                                   !.refreshes = 1]]
                /\ procs' = [procs EXCEPT ![p] =
                     RefreshTokenCall(parsed.userId, providerId)]
    /\ UNCHANGED <<store, codeVerifiers, registeredClients, now, nonce, minted, issued,
                   handedOut, sessions, handshakes, inboundSigningKey>>

\* refreshToken has returned or thrown
RouteAfterRefresh(p) ==
    /\ Finished(p)
    /\ frames[p].pc = "refresh"
    /\ LET rec == procs[p]
           frame == [frames[p] EXCEPT !.call = rec]
           token == rec.result
           lead == LeadOf(ProviderCfg(frame.providerId))
           input == [userId |-> frame.userId, providerId |-> frame.providerId,
                     accountId |-> frame.accountId,
                     runAt |-> RunAt(token.expiresAt, lead)]
       IN  IF rec.pc = "failed"
           THEN RefreshFailed(p, frame, rec.err)
           ELSE /\ frames' = [frames EXCEPT ![p] =
                     IF token.expiresAt # 0
                     THEN [frame EXCEPT !.pc = "publish", !.scheds = Append(@, input)]
                     ELSE Respond(frame, 200, [expiresAt |-> 0, nextRunAt |-> -1])]
                /\ procs' = [procs EXCEPT ![p] = IdleProc]
                /\ UNCHANGED <<store, codeVerifiers, registeredClients, now, nonce,
                               minted, issued, handedOut>>
    /\ UNCHANGED <<sessions, handshakes, inboundSigningKey>>

\* publisher.scheduleRefresh of the handler resolved
RoutePublishOk(p) ==
    /\ Quiet
    /\ frames[p].pc = "publish"
    /\ LET frame == frames[p]
       IN  frames' = [frames EXCEPT ![p] =
             Respond(frame, 200, [expiresAt |-> frame.call.result.expiresAt,
                                  nextRunAt |-> frame.scheds[Len(frame.scheds)].runAt])]
    /\ UNCHANGED <<store, codeVerifiers, registeredClients, now, nonce, minted, issued,
                   handedOut, procs, sessions, handshakes, inboundSigningKey>>

\* publisher.scheduleRefresh of the handler threw: an error without a code
RoutePublishFailed(p) ==
    /\ Quiet
    /\ frames[p].pc = "publish"
    /\ frames' = [frames EXCEPT ![p] = Respond(@, 500, [error |-> "unknown"])]
    /\ UNCHANGED <<store, codeVerifiers, registeredClients, now, nonce, minted, issued,
                   handedOut, procs, sessions, handshakes, inboundSigningKey>>

\* getAuthorizationUrl of the catch block has returned or thrown
RouteAfterReauth(p) ==
    /\ Finished(p)
    /\ frames[p].pc = "reauth"
    /\ LET rec == procs[p]
           frame == frames[p]
       IN  frames' = [frames EXCEPT ![p] =
             IF rec.pc = "done"
             THEN Respond(frame, 409, [error |-> frame.call.err,
                                       reauthorizeUrl |-> rec.url])
             ELSE Respond(frame, 409, [error |-> frame.call.err])]
    /\ procs' = [procs EXCEPT ![p] = IdleProc]
    /\ UNCHANGED <<store, codeVerifiers, registeredClients, now, nonce, minted, issued,
                   handedOut, sessions, handshakes, inboundSigningKey>>

\* The response leaves the gateway
RouteRespond(p) ==
    /\ frames[p].pc = "responded"
    /\ frames' = [frames EXCEPT ![p] = IdleFrame]
    /\ UNCHANGED <<store, codeVerifiers, registeredClients, now, nonce, minted, issued,
                   handedOut, procs, sessions, handshakes, inboundSigningKey>>

----------------------------------------------------------------------------
(* The session gateway: MCPClient (src/src/client.ts) *)

\* The providers map handed to executeProviderTool
Registered(providerId) == providerId \in ProviderIds

\* What JSON.parse makes of a text: the members the gateway looks at.
\* valid is FALSE when JSON.parse throws a SyntaxError.
Doc(hasError, message, hasResult, payload, hasTools, tools) ==
    [valid |-> TRUE, hasError |-> hasError, message |-> message,
     hasResult |-> hasResult, payload |-> payload, hasTools |-> hasTools,
     tools |-> tools]

EmptyDoc == Doc(FALSE, "", FALSE, "", FALSE, <<>>)

SyntaxError == [EmptyDoc EXCEPT !.valid = FALSE]

JsonParse(text) ==
    CASE text = "{}" -> EmptyDoc
      [] text = "{result:{tools:[]}}" -> Doc(FALSE, "", TRUE, "tools", TRUE, <<>>)
      [] text = "{result:{tools:[{name:x}]}}" -> Doc(FALSE, "", TRUE, "tools", TRUE, <<"x">>)
      [] text = "{result:{}}" -> Doc(FALSE, "", TRUE, "{}", FALSE, <<>>)
      [] text = "{result:{content:ok}}" -> Doc(FALSE, "", TRUE, "{content:ok}", FALSE, <<>>)
      [] text = "{error:{code:-1,message:boom}}" -> Doc(TRUE, "boom", FALSE, "", FALSE, <<>>)
      [] text = "{error:{code:-1}}" -> Doc(TRUE, "", FALSE, "", FALSE, <<>>)
      [] OTHER -> SyntaxError

\* A response body is the sequence of its "\n"-separated lines, each line the
\* pair of its prefix ("data: ", "event: " or none) and the rest of the line
Line(prefix, rest) == <<prefix, rest>>

\* JSON.parse(responseText) of a non-empty body: only a body of one line
\* without a prefix spells a JSON document
JsonParseBody(responseText) ==
    IF Len(responseText) = 1 /\ responseText[1][1] = ""
    THEN JsonParse(responseText[1][2])
    ELSE SyntaxError

\* contentType?.includes('text/event-stream')
IsEventStream(contentType) ==
    contentType \in {"text/event-stream", "text/event-stream; charset=utf-8"}

\* responseText.split('\n').filter(line => line.startsWith('data: '))
DataLines(responseText) ==
    SelectSeq(responseText, LAMBDA line : line[1] = "data: ")

\* Variant: the last data frame is decoded instead of the first
ParseResponseLastFrame(contentType, responseText) ==
    LET dataLines == DataLines(responseText)
        whole == IF responseText # <<>> THEN JsonParseBody(responseText) ELSE EmptyDoc
    IN  IF IsEventStream(contentType) /\ dataLines # <<>>
        THEN JsonParse(dataLines[Len(dataLines)][2])
        ELSE whole

\* MCPClient.parseResponse
ParseResponse(contentType, responseText) ==
    LET dataLines == DataLines(responseText)
        whole == IF responseText # <<>> THEN JsonParseBody(responseText) ELSE EmptyDoc
    IN  IF IsEventStream(contentType)
        THEN IF dataLines # <<>> THEN JsonParse(dataLines[1][2]) ELSE whole
        ELSE whole

\* The responses of a provider's MCP endpoint: content type and body
Response(contentType, responseText) == [ctype |-> contentType, text |-> responseText]

ListResponses ==
    {Response("application/json", <<Line("", "{result:{tools:[{name:x}]}}")>>),
     Response("text/event-stream", <<Line("data: ", "{result:{tools:[]}}")>>),
     Response("text/event-stream; charset=utf-8",
              <<Line("event: ", "message"), Line("data: ", "{result:{tools:[{name:x}]}}"),
                Line("", ""), Line("data: ", "{result:{tools:[]}}")>>),
     Response("text/event-stream", <<Line("", "{result:{tools:[{name:x}]}}")>>),
     Response("application/json", <<Line("", "{result:{}}")>>),
     Response("application/json", <<Line("data: ", "{result:{tools:[]}}")>>),
     Response("", <<>>)}

CallResponses ==
    {Response("application/json", <<Line("", "{result:{content:ok}}")>>),
     Response("text/event-stream",
              <<Line("event: ", "message"), Line("data: ", "{result:{content:ok}}")>>),
     Response("application/json", <<Line("", "{error:{code:-1,message:boom}}")>>),
     Response("application/json", <<Line("", "{error:{code:-1}}")>>),
     Response("application/json", <<Line("", "{}")>>)}

InitializeResponses ==
    {Response("application/json", <<Line("", "{result:{}}")>>),
     Response("text/event-stream", <<Line("data: ", "{result:{}}")>>),
     Response("application/json", <<Line("", "{error:{code:-1,message:boom}}")>>)}

\* The Mcp-Session-Id response header of the handshake answered to slot p,
\* "" when the upstream sends none
ServerSessionIds(p) == {"", IF p = "p1" THEN "srv-1" ELSE "srv-2"}

\* crypto.randomUUID() as drawn by the call in slot p
TempSessionId(p) == IF p = "p1" THEN "tmp-1" ELSE "tmp-2"

\* The headers that vary: Mcp-Session-Id and Authorization (Bearer <token>)
Bearer(token) == IF token # NoToken THEN [Authorization |-> token.accessToken] ELSE <<>>

\* Variant: the handshake presents the temporary session id
InitializeRequestWithSession(token) ==
    [method |-> "initialize",
     headers |-> ("Mcp-Session-Id" :> "tmp-1") @@ Bearer(token)]

\* the request of initializeSession: no Mcp-Session-Id
InitializeRequest(token) == [method |-> "initialize", headers |-> Bearer(token)]

\* the tools/list or tools/call request
ToolsRequest(method, sessionId, token) ==
    [method |-> method, headers |-> ("Mcp-Session-Id" :> sessionId) @@ Bearer(token)]

ToolsMethod(op) == IF op = "getProviderTools" THEN "tools/list" ELSE "tools/call"

GatewayOps == {"getProviderTools", "executeProviderTool"}

Throw(frame, err) == [frame EXCEPT !.pc = "failed", !.err = err]

\* const token = provider.oauth ? await this.oauthManager.getToken(...) : null
\* and what follows it up to the next await, for the call in slot p; next is
\* the position of the frame while getToken runs, send the frame once the
\* request that needs the token has been sent
FetchToken(p, frame, next, send) ==
    IF ProviderCfg(frame.providerId).hasOAuth
    THEN /\ procs' = [procs EXCEPT ![p] = GetTokenCall(frame.userId, frame.providerId)]
         /\ frames' = [frames EXCEPT ![p] = [frame EXCEPT !.pc = next]]
    ELSE /\ procs' = [procs EXCEPT ![p] = IdleProc]
         /\ frames' = [frames EXCEPT ![p] = send]

SendInitialize(frame, token) ==
    [frame EXCEPT !.pc = "init_fetch", !.token = token,
                  !.reqs = Append(@, InitializeRequest(token))]

\* (the response read by initializeSession is out of scope by now)
SendTools(frame, token) ==
    [frame EXCEPT !.pc = "call_fetch", !.token = token,
                  !.ctype = "", !.text = <<>>, !.decoded = <<>>,
                  !.reqs = Append(@, ToolsRequest(ToolsMethod(frame.op),
                                                  frame.sessionId, token))]

\* providers.get(providerId) is defined
KnownProvider(providerId) == Registered(providerId)

\* getProviderTools / executeProviderTool from entry to the first await
\* (getProviderTools is handed a ProviderConfig, executeProviderTool an id)
GatewayCall(p, op, userId, providerId) ==
    /\ Free(p)
    /\ op = "getProviderTools" => Registered(providerId)
    /\ LET frame == [IdleFrame EXCEPT !.op = op, !.userId = userId,
                                      !.providerId = providerId]
       IN  IF op = "executeProviderTool" /\ ~KnownProvider(providerId)
           THEN /\ frames' = [frames EXCEPT ![p] = Throw(frame, "ProviderNotFound")]
                /\ UNCHANGED procs
           ELSE LET sessionId == sessions[<<userId, providerId>>]
                    hit == [frame EXCEPT !.cached = sessionId, !.sessionId = sessionId]
                IN  IF sessionId = ""
                    THEN FetchToken(p, frame, "init_token", SendInitialize(frame, NoToken))
                    ELSE FetchToken(p, hit, "call_token", SendTools(hit, NoToken))
    /\ UNCHANGED <<store, codeVerifiers, registeredClients, now, nonce, minted, issued,
                   handedOut, sessions, handshakes, inboundSigningKey>>

\* getToken has returned or thrown: initializeSession sends the handshake, or
\* the tools request is sent
GatewayAfterToken(p) ==
    /\ Finished(p)
    /\ frames[p].pc \in {"init_token", "call_token"}
    /\ LET rec == procs[p]
           frame == [frames[p] EXCEPT !.call = rec]
       IN  frames' = [frames EXCEPT ![p] =
             IF rec.pc = "failed" THEN Throw(frame, rec.err)
             ELSE IF frame.pc = "init_token" THEN SendInitialize(frame, rec.result)
             ELSE SendTools(frame, rec.result)]
    /\ procs' = [procs EXCEPT ![p] = IdleProc]
    /\ UNCHANGED <<store, codeVerifiers, registeredClients, now, nonce, minted, issued,
                   handedOut, sessions, handshakes, inboundSigningKey>>

\* Variant: the session id is not cached
CacheNothing(cache, key, sessionId) == cache

\* this.sessions.set(sessionKey, sessionId)
CacheSession(cache, key, sessionId) == [cache EXCEPT ![key] = sessionId]

CountHandshake(key, sessionId) ==
    [handshakes EXCEPT ![key] =
        [ok |-> IF @.ok >= 2 THEN 2 ELSE @.ok + 1,
         first |-> IF @.first = "" THEN sessionId ELSE @.first]]

\* Variant: the session id is cached before the answer is looked at
GatewayInitializedCachingFirst(p, sid, response) ==
    /\ Quiet
    /\ frames[p].pc = "init_fetch"
    /\ LET decoded == ParseResponse(response.ctype, response.text)
           sessionId == IF sid # "" THEN sid ELSE TempSessionId(p)
           key == <<frames[p].userId, frames[p].providerId>>
           frame == [frames[p] EXCEPT !.ctype = response.ctype, !.text = response.text,
                                      !.decoded = decoded]
           held == [frame EXCEPT !.sessionId = sessionId]
       IN  /\ sessions' = CacheSession(sessions, key, sessionId)
           /\ IF ~decoded.valid \/ decoded.hasError
              THEN /\ frames' = [frames EXCEPT ![p] =
                        Throw(frame, IF decoded.valid THEN "SessionInitFailed"
                                     ELSE "SyntaxError")]
                   /\ UNCHANGED <<procs, handshakes>>
              ELSE /\ handshakes' = CountHandshake(key, sessionId)
                   /\ FetchToken(p, held, "call_token", SendTools(held, NoToken))
    /\ UNCHANGED <<store, codeVerifiers, registeredClients, now, nonce, minted, issued,
                   handedOut, inboundSigningKey>>

\* The answer to initialize has been read: initializeSession returns or throws,
\* the session is cached and the token is fetched for the tools request
GatewayInitialized(p, sid, response) ==
    /\ Quiet
    /\ frames[p].pc = "init_fetch"
    /\ LET decoded == ParseResponse(response.ctype, response.text)
           sessionId == IF sid # "" THEN sid ELSE TempSessionId(p)
           key == <<frames[p].userId, frames[p].providerId>>
           frame == [frames[p] EXCEPT !.ctype = response.ctype, !.text = response.text,
                                      !.decoded = decoded]
           held == [frame EXCEPT !.sessionId = sessionId]
       IN  IF ~decoded.valid \/ decoded.hasError
           THEN /\ frames' = [frames EXCEPT ![p] =
                     Throw(frame, IF decoded.valid THEN "SessionInitFailed"
                                  ELSE "SyntaxError")]
                /\ UNCHANGED <<procs, sessions, handshakes>>
           ELSE /\ sessions' = CacheSession(sessions, key, sessionId)
                /\ handshakes' = CountHandshake(key, sessionId)
                /\ FetchToken(p, held, "call_token", SendTools(held, NoToken))
    /\ UNCHANGED <<store, codeVerifiers, registeredClients, now, nonce, minted, issued,
                   handedOut, inboundSigningKey>>

\* result.result?.tools || []
ToolsOf(decoded) == IF decoded.hasTools THEN decoded.tools ELSE <<>>

\* result.error.message || 'Tool execution failed'
ToolError(decoded) ==
    IF decoded.message # "" THEN decoded.message ELSE "Tool execution failed"

\* Variant: an upstream error is swallowed and the result member returned
ToolOutcomeSwallow(frame, decoded) ==
    [frame EXCEPT !.pc = "done", !.result = <<decoded.payload>>]

\* The outcome of executeProviderTool once the response is decoded
ToolOutcome(frame, decoded) ==
    IF decoded.hasError THEN Throw(frame, ToolError(decoded))
    ELSE [frame EXCEPT !.pc = "done", !.result = <<decoded.payload>>]

\* The answer to tools/list or tools/call has been read
GatewayAnswered(p, response) ==
    /\ Quiet
    /\ frames[p].pc = "call_fetch"
    /\ LET decoded == ParseResponse(response.ctype, response.text)
           frame == [frames[p] EXCEPT !.ctype = response.ctype, !.text = response.text,
                                      !.decoded = decoded]
       IN  frames' = [frames EXCEPT ![p] =
             IF ~decoded.valid THEN Throw(frame, "SyntaxError")
             ELSE IF frame.op = "getProviderTools"
             THEN [frame EXCEPT !.pc = "done", !.result = ToolsOf(decoded)]
             ELSE ToolOutcome(frame, decoded)]
    /\ UNCHANGED <<store, codeVerifiers, registeredClients, now, nonce, minted, issued,
                   handedOut, procs, sessions, handshakes, inboundSigningKey>>

\* fetch to the provider's MCP endpoint rejects
GatewayFetchFailed(p) ==
    /\ Quiet
    /\ frames[p].pc \in {"init_fetch", "call_fetch"}
    /\ frames' = [frames EXCEPT ![p] = Throw(@, "FetchError")]
    /\ UNCHANGED <<store, codeVerifiers, registeredClients, now, nonce, minted, issued,
                   handedOut, procs, sessions, handshakes, inboundSigningKey>>

\* The gateway call returns to its caller
GatewayReturn(p) ==
    /\ frames[p].pc \in {"done", "failed"}
    /\ frames' = [frames EXCEPT ![p] = IdleFrame]
    /\ UNCHANGED <<store, codeVerifiers, registeredClients, now, nonce, minted, issued,
                   handedOut, procs, sessions, handshakes, inboundSigningKey>>

----------------------------------------------------------------------------
(* Signing: hmacSha256 of the publisher (src/unnamed/part_002) and the      *)
(* verification of handleOAuthRefresh (src/src/routes.ts), byte by byte     *)

\* The characters of a body: two ASCII letters, a letter of two UTF-8 bytes,
\* a lone surrogate and U+FFFD
Chars == {"a", "b", "e-acute", "lone-surrogate", "U+FFFD"}

RECURSIVE Strings(_)
Strings(n) ==
    IF n = 0 THEN {<<>>}
    ELSE Strings(n - 1)
           \cup {Append(t, c) : t \in {u \in Strings(n - 1) : Len(u) = n - 1},
                                c \in Chars}

\* The bodies a publisher may sign and a request may carry
Bodies == Strings(MaxBodyLen)

\* TextEncoder.encode of one character: a lone surrogate is encoded as U+FFFD
Utf8Char(c) ==
    CASE c = "a" -> <<97>>
      [] c = "b" -> <<98>>
      [] c = "e-acute" -> <<195, 169>>
      [] OTHER -> <<239, 191, 189>>

\* new TextEncoder().encode(text), also the bytes fetch sends for a string body
RECURSIVE Utf8(_)
Utf8(text) == IF text = <<>> THEN <<>> ELSE Utf8Char(Head(text)) \o Utf8(Tail(text))

\* Variant: bytes that decode to U+FFFD are dropped
RECURSIVE Utf8DecodeDropping(_)
Utf8DecodeDropping(bytes) ==
    IF bytes = <<>> THEN <<>>
    ELSE IF Head(bytes) = 97 THEN <<"a">> \o Utf8DecodeDropping(Tail(bytes))
    ELSE IF Head(bytes) = 98 THEN <<"b">> \o Utf8DecodeDropping(Tail(bytes))
    ELSE IF Head(bytes) = 195
    THEN <<"e-acute">> \o Utf8DecodeDropping(SubSeq(bytes, 3, Len(bytes)))
    ELSE Utf8DecodeDropping(SubSeq(bytes, 4, Len(bytes)))

\* c.req.text(): the UTF-8 decoding of the bytes received
RECURSIVE Utf8Decode(_)
Utf8Decode(bytes) ==
    IF bytes = <<>> THEN <<>>
    ELSE IF Head(bytes) = 97 THEN <<"a">> \o Utf8Decode(Tail(bytes))
    ELSE IF Head(bytes) = 98 THEN <<"b">> \o Utf8Decode(Tail(bytes))
    ELSE IF Head(bytes) = 195
    THEN <<"e-acute">> \o Utf8Decode(SubSeq(bytes, 3, Len(bytes)))
    ELSE <<"U+FFFD">> \o Utf8Decode(SubSeq(bytes, 4, Len(bytes)))

\* crypto.subtle.sign('HMAC', key, bytes): HMAC-SHA256, taken to be free of
\* collisions
HmacSha256(keyBytes, payloadBytes) == <<"mac", keyBytes, payloadBytes>>

\* btoa of the binary string of the MAC bytes
Base64(mac) == <<"base64", mac>>

\* hmacSha256(secret, payload) of the publisher; a key is one opaque character
PublisherSignature(secret, payload) ==
    Base64(HmacSha256(<<secret>>, Utf8(payload)))

\* expected of handleOAuthRefresh
ExpectedSignature(key, bodyText) ==
    Base64(HmacSha256(<<key>>, Utf8(bodyText)))

\* if (inboundSigningKey) { ... if (expected !== sig) return 401 }
RejectsSigned(key, sig, bodyText) ==
    key # "" /\ ExpectedSignature(key, bodyText) # sig

\* InngestPublisher.scheduleRefresh signs body with its signing key, here the
\* key the inbound verifier is configured with, and posts it
PublisherSigns(p, body) ==
    /\ Free(p)
    /\ frames' = [frames EXCEPT ![p] =
         [IdleFrame EXCEPT !.op = "scheduleRefresh", !.pc = "posted", !.body = body,
                           !.sig = PublisherSignature(inboundSigningKey, body)]]
    /\ UNCHANGED <<store, codeVerifiers, registeredClients, now, nonce, minted, issued,
                   handedOut, procs, sessions, handshakes, inboundSigningKey>>

\* The verification of handleOAuthRefresh, for a request that carries the
\* signature with the bytes of the body sent
VerifierReceives(p, sent) ==
    /\ Quiet
    /\ frames[p].pc = "posted"
    /\ LET frame == frames[p]
           bodyText == Utf8Decode(Utf8(sent))
           rejected == RejectsSigned(inboundSigningKey, frame.sig, bodyText)
       IN  frames' = [frames EXCEPT ![p] =
             [frame EXCEPT !.pc = "responded", !.text = Utf8(sent),
                           !.verified = ~rejected,
                           !.status = IF rejected THEN 401 ELSE 200]]
    /\ UNCHANGED <<store, codeVerifiers, registeredClients, now, nonce, minted, issued,
                   handedOut, procs, sessions, handshakes, inboundSigningKey>>

SigningDone(p) ==
    /\ frames[p].op = "scheduleRefresh"
    /\ frames[p].pc = "responded"
    /\ frames' = [frames EXCEPT ![p] = IdleFrame]
    /\ UNCHANGED <<store, codeVerifiers, registeredClients, now, nonce, minted, issued,
                   handedOut, procs, sessions, handshakes, inboundSigningKey>>

\* The keys a publisher is built with: INNGEST_SIGNING_KEY, never empty
PublisherKeys == {"k1", "k2"}

InitSigning == InitManager /\ InitCallers(PublisherKeys)

NextSigning ==
    \/ \E p \in SeqProcs, body \in Bodies : PublisherSigns(p, body)
    \/ \E p \in SeqProcs, sent \in Bodies : VerifierReceives(p, sent)
    \/ \E p \in SeqProcs : SigningDone(p)

SpecSigning == InitSigning /\ [][NextSigning]_vars

----------------------------------------------------------------------------
(* The capability gate: AIAgent.execute with its auth gating, the loading   *)
(* of the tools and the planned tool calls, getProviderAuthStatus and       *)
(* getNoAuthError (src/unnamed/part_000)                                    *)

\* this.providers.entries(): the configured providers in insertion order
ProviderOrder == <<"alpha", "beta", "gamma">>

\* What selectProviders may return: the ids the planner names, in its order,
\* some of them possibly unknown or named twice; <<>> stands for null
Selections ==
    {<<>>, <<"alpha">>, <<"beta">>, <<"gamma">>, <<"alpha", "beta">>,
     <<"gamma", "beta", "alpha">>, <<"zeta", "beta">>, <<"beta", "beta">>,
     <<"zeta", "gamma">>}

\* error.message of an error thrown inside execute, -32603 being the JSON-RPC
\* code of every error execute returns
InternalError(message) == [error |-> [code |-> -32603, message |-> message]]

AgentReturn(frame, reply) == [frame EXCEPT !.pc = "responded", !.reply = reply]

\* The loop of getProviderAuthStatus up to its next await: a provider without
\* OAuth is reported authenticated at once
RECURSIVE StatusAdvance(_, _)
StatusAdvance(statuses, todo) ==
    IF todo = <<>> \/ ProviderCfg(Head(todo)).hasOAuth
    THEN [statuses |-> statuses, todo |-> todo]
    ELSE StatusAdvance(Append(statuses, [id |-> Head(todo), authenticated |-> TRUE]),
                       Tail(todo))

\* The gating loop of execute up to its next await: only a provider with
\* OAuth is asked for a token
RECURSIVE GateAdvance(_)
GateAdvance(todo) ==
    IF todo = <<>> \/ ProviderCfg(Head(todo)).hasOAuth
    THEN todo ELSE GateAdvance(Tail(todo))

\* Variant: every provider with OAuth is a target, whatever was asked for
NoAuthTargetsAll(specified, ids) ==
    SelectSeq(ProviderOrder, LAMBDA id : ProviderCfg(id).hasOAuth)

\* The providers getNoAuthError asks an authorization URL for: those of
\* providerId that have OAuth, every provider with OAuth when providerId is
\* undefined
NoAuthTargets(specified, ids) ==
    IF specified
    THEN SelectSeq(ids, LAMBDA id : ProviderCfg(id).hasOAuth)
    ELSE SelectSeq(ProviderOrder, LAMBDA id : ProviderCfg(id).hasOAuth)

\* Object.values(authUrls)
RECURSIVE UrlValues(_, _)
UrlValues(authUrls, order) ==
    IF order = <<>> THEN <<>>
    ELSE IF Head(order) \in DOMAIN authUrls
    THEN <<authUrls[Head(order)]>> \o UrlValues(authUrls, Tail(order))
    ELSE UrlValues(authUrls, Tail(order))

\* for (const authUrl of Object.values(authUrls)) open(authUrl)
OpenInBrowser(urls) == urls

\* getProviderAuthStatus from the state frame on, in slot p
StatusLoop(p, frame) ==
    LET adv == StatusAdvance(frame.statuses, frame.todo)
    IN  IF adv.todo = <<>>
        THEN /\ frames' = [frames EXCEPT ![p] =
                  [frame EXCEPT !.pc = "select", !.statuses = adv.statuses,
                                !.todo = <<>>]]
             /\ procs' = [procs EXCEPT ![p] = IdleProc]
        ELSE /\ frames' = [frames EXCEPT ![p] =
                  [frame EXCEPT !.pc = "status_token", !.statuses = adv.statuses,
                                !.providerId = Head(adv.todo),
                                !.todo = Tail(adv.todo)]]
             /\ procs' = [procs EXCEPT ![p] = GetTokenCall(frame.userId, Head(adv.todo))]

\* getNoAuthError from the state frame on: the next getAuthorizationUrl, or
\* the opening of the URLs and the returned error
NoAuthLoop(p, frame) ==
    IF frame.todo = <<>>
    THEN /\ frames' = [frames EXCEPT ![p] =
              AgentReturn([frame EXCEPT
                             !.opened = OpenInBrowser(UrlValues(frame.authUrls,
                                                                frame.missingAuth))],
                          [error |-> [code |-> -32603,
                                      data |-> [needsAuth |-> TRUE,
                                                providers |-> frame.authUrls]]])]
         /\ procs' = [procs EXCEPT ![p] = IdleProc]
         /\ UNCHANGED <<store, codeVerifiers, registeredClients, now, nonce, minted,
                        issued, handedOut>>
    ELSE /\ AuthorizationUrlEntry(p, Head(frame.todo), frame.userId)
         /\ frames' = [frames EXCEPT ![p] =
              [frame EXCEPT !.pc = "gate_url", !.providerId = Head(frame.todo),
                            !.todo = Tail(frame.todo)]]

\* const provider = this.providers.get(providerId); if (!provider) continue
RECURSIVE KnownAdvance(_)
KnownAdvance(todo) ==
    IF todo = <<>> \/ KnownProvider(Head(todo)) THEN todo ELSE KnownAdvance(Tail(todo))

\* The frame of execute while it awaits the gateway operation op for
\* providerId: the locals of the gateway call are fresh, the requests sent
\* for this execute stay on record
SubCall(frame, op, providerId) ==
    [frame EXCEPT !.op = op, !.providerId = providerId,
                  !.sessionId = "", !.cached = "", !.token = NoToken,
                  !.ctype = "", !.text = <<>>, !.decoded = <<>>,
                  !.result = <<>>, !.err = ""]

\* getProviderTools / executeProviderTool for a known provider, called by
\* execute and run to its first await
EnterGateway(p, frame) ==
    LET sessionId == sessions[<<frame.userId, frame.providerId>>]
        hit == [frame EXCEPT !.cached = sessionId, !.sessionId = sessionId]
    IN  IF sessionId = ""
        THEN FetchToken(p, frame, "init_token", SendInitialize(frame, NoToken))
        ELSE FetchToken(p, hit, "call_token", SendTools(hit, NoToken))

\* The tool-loading loop of execute from the state frame on: the next
\* getProviderTools, or planTools once every selected provider is done
ToolLoop(p, frame) ==
    LET todo == KnownAdvance(frame.todo)
    IN  IF todo = <<>>
        THEN /\ frames' = [frames EXCEPT ![p] = [frame EXCEPT !.pc = "plan", !.todo = <<>>]]
             /\ procs' = [procs EXCEPT ![p] = IdleProc]
        ELSE EnterGateway(p, SubCall([frame EXCEPT !.todo = Tail(todo)],
                                     "getProviderTools", Head(todo)))

\* The gating loop of execute from the state frame on
GateLoop(p, frame) ==
    LET todo == GateAdvance(frame.todo)
    IN  IF todo # <<>>
        THEN /\ frames' = [frames EXCEPT ![p] =
                  [frame EXCEPT !.pc = "gate_token", !.providerId = Head(todo),
                                !.todo = Tail(todo)]]
             /\ procs' = [procs EXCEPT ![p] = GetTokenCall(frame.userId, Head(todo))]
             /\ UNCHANGED <<store, codeVerifiers, registeredClients, now, nonce,
                            minted, issued, handedOut>>
        ELSE IF frame.missingAuth = <<>>
        THEN \* every selected provider is authenticated: execute goes on to load
             \* the tools
             /\ ToolLoop(p, [frame EXCEPT !.todo = frame.selected])
             /\ UNCHANGED <<store, codeVerifiers, registeredClients, now, nonce,
                            minted, issued, handedOut>>
        ELSE NoAuthLoop(p, [frame EXCEPT
                              !.todo = NoAuthTargets(TRUE, frame.missingAuth)])

\* execute(args, userId, requestId) up to the first getToken
AgentExecute(p, userId) ==
    /\ Free(p)
    /\ StatusLoop(p, [IdleFrame EXCEPT !.op = "execute", !.userId = userId,
                                       !.todo = ProviderOrder])
    /\ UNCHANGED <<store, codeVerifiers, registeredClients, now, nonce, minted, issued,
                   handedOut, sessions, handshakes, inboundSigningKey>>

\* getToken of getProviderAuthStatus has returned or thrown; what it throws
\* is caught by execute
AgentAfterStatusToken(p) ==
    /\ Finished(p)
    /\ frames[p].pc = "status_token"
    /\ LET rec == procs[p]
           frame == [frames[p] EXCEPT !.call = rec]
       IN  IF rec.pc = "failed"
           THEN /\ frames' = [frames EXCEPT ![p] =
                     AgentReturn(frame, InternalError(rec.err))]
                /\ procs' = [procs EXCEPT ![p] = IdleProc]
           ELSE StatusLoop(p, [frame EXCEPT !.statuses =
                     Append(@, [id |-> frame.providerId,
                                authenticated |-> rec.result # NoToken])])
    /\ UNCHANGED <<store, codeVerifiers, registeredClients, now, nonce, minted, issued,
                   handedOut, sessions, handshakes, inboundSigningKey>>

\* selectProviders has returned
AgentSelected(p, selected) ==
    /\ Quiet
    /\ frames[p].pc = "select"
    /\ LET frame == [frames[p] EXCEPT !.selected = selected, !.todo = selected]
       IN  IF selected = <<>>
           THEN /\ frames' = [frames EXCEPT ![p] =
                     AgentReturn(frame, InternalError("Could not determine which providers to use"))]
                /\ UNCHANGED <<store, codeVerifiers, registeredClients, now, nonce,
                               minted, issued, handedOut, procs>>
           ELSE GateLoop(p, frame)
    /\ UNCHANGED <<sessions, handshakes, inboundSigningKey>>

\* the request of selectProviders to the planner failed
AgentSelectFailed(p) ==
    /\ Quiet
    /\ frames[p].pc = "select"
    /\ frames' = [frames EXCEPT ![p] = AgentReturn(@, InternalError("FetchError"))]
    /\ UNCHANGED <<store, codeVerifiers, registeredClients, now, nonce, minted, issued,
                   handedOut, procs, sessions, handshakes, inboundSigningKey>>

\* getToken of the gating loop has returned or thrown
AgentAfterGateToken(p) ==
    /\ Finished(p)
    /\ frames[p].pc = "gate_token"
    /\ LET rec == procs[p]
           frame == [frames[p] EXCEPT !.call = rec]
       IN  IF rec.pc = "failed"
           THEN /\ frames' = [frames EXCEPT ![p] =
                     AgentReturn(frame, InternalError(rec.err))]
                /\ procs' = [procs EXCEPT ![p] = IdleProc]
                /\ UNCHANGED <<store, codeVerifiers, registeredClients, now, nonce,
                               minted, issued, handedOut>>
           ELSE GateLoop(p, [frame EXCEPT !.missingAuth =
                     IF rec.result = NoToken THEN Append(@, frame.providerId) ELSE @])
    /\ UNCHANGED <<sessions, handshakes, inboundSigningKey>>

\* getAuthorizationUrl of getNoAuthError has returned or thrown
AgentAfterUrl(p) ==
    /\ Finished(p)
    /\ frames[p].pc = "gate_url"
    /\ LET rec == procs[p]
           frame == [frames[p] EXCEPT !.call = rec]
       IN  IF rec.pc = "failed"
           THEN /\ frames' = [frames EXCEPT ![p] =
                     AgentReturn(frame, InternalError(rec.err))]
                /\ procs' = [procs EXCEPT ![p] = IdleProc]
                /\ UNCHANGED <<store, codeVerifiers, registeredClients, now, nonce,
                               minted, issued, handedOut>>
           ELSE NoAuthLoop(p, [frame EXCEPT !.authUrls =
                     (frame.providerId :> rec.url) @@ @])
    /\ UNCHANGED <<sessions, handshakes, inboundSigningKey>>

\* name: `${providerId}.${tool.name}` for each tool of the provider
RECURSIVE Namespaced(_, _)
Namespaced(providerId, names) ==
    IF names = <<>> THEN <<>>
    ELSE <<[providerId |-> providerId, name |-> Head(names)]>>
             \o Namespaced(providerId, Tail(names))

\* The gateway operation the execute in slot p awaits has returned or thrown
AgentAwaited(p, op) ==
    /\ frames[p].selected # <<>>
    /\ frames[p].op = op
    /\ frames[p].pc \in {"done", "failed"}

\* getProviderTools of the tool-loading loop has returned or thrown
AgentAfterTools(p) ==
    /\ AgentAwaited(p, "getProviderTools")
    /\ LET frame == [frames[p] EXCEPT !.op = "execute"]
       IN  IF frame.pc = "failed"
           THEN /\ frames' = [frames EXCEPT ![p] =
                     AgentReturn(frame, InternalError(frame.err))]
                /\ UNCHANGED procs
           ELSE ToolLoop(p, [frame EXCEPT !.tools =
                     @ \o Namespaced(frame.providerId, frame.result)])
    /\ UNCHANGED <<store, codeVerifiers, registeredClients, now, nonce, minted, issued,
                   handedOut, sessions, handshakes, inboundSigningKey>>

\* What planTools may return: the provider of each planned step, in order;
\* <<>> stands for null and for the empty plan
Plans == {<<>>, <<"zeta">>, <<"gamma", "alpha">>}

\* The loop over the planned steps from the state frame on: the next
\* executeProviderTool, or the result of execute
CallLoop(p, frame) ==
    IF frame.todo = <<>>
    THEN /\ frames' = [frames EXCEPT ![p] =
              AgentReturn(frame, [result |-> frame.results])]
         /\ procs' = [procs EXCEPT ![p] = IdleProc]
    ELSE LET call == SubCall([frame EXCEPT !.todo = Tail(frame.todo)],
                             "executeProviderTool", Head(frame.todo))
         IN  IF ~KnownProvider(Head(frame.todo))
             THEN /\ frames' = [frames EXCEPT ![p] = Throw(call, "ProviderNotFound")]
                  /\ procs' = [procs EXCEPT ![p] = IdleProc]
             ELSE EnterGateway(p, call)

\* planTools has returned
AgentPlanned(p, plan) ==
    /\ Quiet
    /\ frames[p].op = "execute"
    /\ frames[p].pc = "plan"
    /\ IF plan = <<>>
       THEN /\ frames' = [frames EXCEPT ![p] =
                 AgentReturn(@, InternalError("Could not determine which tool(s) to use"))]
            /\ UNCHANGED procs
       ELSE CallLoop(p, [frames[p] EXCEPT !.todo = plan])
    /\ UNCHANGED <<store, codeVerifiers, registeredClients, now, nonce, minted, issued,
                   handedOut, sessions, handshakes, inboundSigningKey>>

\* the request of planTools to the planner failed
AgentPlanFailed(p) ==
    /\ Quiet
    /\ frames[p].op = "execute"
    /\ frames[p].pc = "plan"
    /\ frames' = [frames EXCEPT ![p] = AgentReturn(@, InternalError("FetchError"))]
    /\ UNCHANGED <<store, codeVerifiers, registeredClients, now, nonce, minted, issued,
                   handedOut, procs, sessions, handshakes, inboundSigningKey>>

\* executeProviderTool of a planned step has returned or thrown
AgentAfterCall(p) ==
    /\ AgentAwaited(p, "executeProviderTool")
    /\ LET frame == [frames[p] EXCEPT !.op = "execute"]
       IN  IF frame.pc = "failed"
           THEN /\ frames' = [frames EXCEPT ![p] =
                     AgentReturn(frame, InternalError(frame.err))]
                /\ UNCHANGED procs
           ELSE CallLoop(p, [frame EXCEPT !.results =
                     Append(@, [providerId |-> frame.providerId,
                                result |-> frame.result])])
    /\ UNCHANGED <<store, codeVerifiers, registeredClients, now, nonce, minted, issued,
                   handedOut, sessions, handshakes, inboundSigningKey>>

\* The answer of execute leaves the agent
AgentRespond(p) ==
    /\ frames[p].op = "execute"
    /\ frames[p].pc = "responded"
    /\ frames' = [frames EXCEPT ![p] = IdleFrame]
    /\ UNCHANGED <<store, codeVerifiers, registeredClients, now, nonce, minted, issued,
                   handedOut, procs, sessions, handshakes, inboundSigningKey>>

----------------------------------------------------------------------------

\* The caller takes the result of a finished call
Return(p) ==
    /\ Finished(p)
    /\ ~Owned(p)
    /\ procs' = [procs EXCEPT ![p] = IdleProc]
    /\ UNCHANGED <<store, codeVerifiers, registeredClients, now, nonce, minted, issued, handedOut>>
    /\ UNCHANGED callerVars

Tick ==
    /\ Quiet
    /\ now < StartTime + MaxTicks * TickMs
    /\ now' = now + TickMs
    /\ UNCHANGED <<store, codeVerifiers, registeredClients, nonce, minted, issued,
                   handedOut, procs>>
    /\ UNCHANGED callerVars

\* The authorization flow in the slots ps: getAuthorizationUrl and handleCallback
FlowStep(ps) ==
    \/ \E p \in ps, u \in Users, id \in ProviderIds : GetAuthorizationUrl(p, id, u)
    \/ \E p \in ps : RegisterOk(p)
    \/ \E p \in ps, status \in RejectStatuses : RegisterRejected(p, status)
    \/ \E p \in ps, code \in Codes, state \in CallbackStates :
         HandleCallback(p, code, state)
    \/ \E p \in ps, data \in TokenResponses(minted + 1) : HcExchangeOk(p, data)
    \/ \E p \in ps, status \in RejectStatuses : HcExchangeRejected(p, status)
    \/ \E p \in ps : FetchFailed(p)
    \/ \E p \in ps : ScheduleNext(p)
    \/ \E p \in ps : PublishOk(p)
    \/ \E p \in ps : PublishFailed(p)

\* The token operations in the slots ps: getToken, refreshToken, revokeToken
TokenStep(ps) ==
    \/ \E p \in ps, u \in Users, id \in ProviderIds : GetToken(p, u, id)
    \/ \E p \in ps : GetTokenAfterRead(p)
    \/ \E p \in ps, u \in Users, id \in ProviderIds : RefreshToken(p, u, id)
    \/ \E p \in ps : RefreshAfterRead(p)
    \/ \E p \in ps, data \in TokenResponses(minted + 1) : RefreshOk(p, data)
    \/ \E p \in ps, status \in RejectStatuses : RefreshRejected(p, status)
    \/ \E p \in ps, u \in Users, id \in ProviderIds : RevokeToken(p, u, id)

\* One call at a time
Next ==
    \/ FlowStep(SeqProcs)
    \/ TokenStep(SeqProcs)
    \/ Tick
    \/ \E p \in Procs : Return(p)

Spec == Init /\ [][Next]_vars

\* Two authorization flows at a time, interleaved at their await points
NextCallbacks ==
    \/ FlowStep(Procs)
    \/ \E p \in Procs : Return(p)

SpecCallbacks == Init /\ [][NextCallbacks]_vars

\* The steps of refreshToken and of getAuthorizationUrl past their first await
RefreshSteps(ps) ==
    \/ \E p \in ps : RefreshAfterRead(p)
    \/ \E p \in ps, data \in TokenResponses(minted + 1) : RefreshOk(p, data)
    \/ \E p \in ps, status \in RejectStatuses : RefreshRejected(p, status)
    \/ \E p \in ps : FetchFailed(p)
    \/ \E p \in ps : ScheduleNext(p)
    \/ \E p \in ps : PublishOk(p)
    \/ \E p \in ps : PublishFailed(p)

RouteProviders == ProviderIds

\* The inbound refresh trigger in the slots ps
RouteStep(ps) ==
    \/ \E p \in ps, id \in RouteProviders, bodyText \in RefreshBodies :
         \E sig \in Signatures(bodyText) : RouteReceive(p, id, bodyText, sig)
    \/ \E p \in ps : RouteAfterRefresh(p)
    \/ \E p \in ps : RoutePublishOk(p)
    \/ \E p \in ps : RoutePublishFailed(p)
    \/ \E p \in ps : RouteAfterReauth(p)
    \/ \E p \in ps : RouteRespond(p)
    \/ \E p \in ps : RegisterOk(p)
    \/ \E p \in ps, status \in RejectStatuses : RegisterRejected(p, status)

\* Inbound refresh requests, one at a time, to a gateway with or without a key
NextInbound ==
    \/ RouteStep(SeqProcs)
    \/ RefreshSteps(SeqProcs)

SpecInbound == InitAnyKey /\ [][NextInbound]_vars

AuthorizeProviders == ProviderIds \cup ConfiguredOAuth

\* The client ids an earlier run of getAuthorizationUrl may have left in the
\* cache: none, or the one registered for alpha
PriorRegistrations ==
    {[id \in ConfiguredOAuth |-> ""],
     [id \in ConfiguredOAuth |-> IF id = "alpha" THEN RegisteredClientId(id) ELSE ""]}

InitAuthorize ==
    /\ \E clients \in PriorRegistrations : InitManagerWith(clients)
    /\ InitCallers({"k1"})

\* Authorization flows one at a time, over every OAuth configuration
NextAuthorize ==
    \/ \E p \in SeqProcs, u \in Users, id \in AuthorizeProviders :
         GetAuthorizationUrl(p, id, u)
    \/ \E p \in SeqProcs : RegisterOk(p)
    \/ \E p \in SeqProcs, status \in RejectStatuses : RegisterRejected(p, status)
    \/ \E p \in SeqProcs, code \in Codes, state \in CallbackStates :
         HandleCallback(p, code, state)
    \/ \E p \in SeqProcs, data \in TokenResponses(minted + 1) : HcExchangeOk(p, data)
    \/ \E p \in SeqProcs, status \in RejectStatuses : HcExchangeRejected(p, status)
    \/ \E p \in SeqProcs : FetchFailed(p)
    \/ \E p \in SeqProcs : ScheduleNext(p)
    \/ \E p \in SeqProcs : PublishOk(p)
    \/ \E p \in SeqProcs : PublishFailed(p)
    \/ \E p \in Procs : Return(p)

SpecAuthorize == InitAuthorize /\ [][NextAuthorize]_vars

\* The steps of getToken past its first await
GetTokenSteps(ps) ==
    \/ \E p \in ps : GetTokenAfterRead(p)
    \/ RefreshSteps(ps)

\* The capability gate in the slots ps
AgentStep(ps) ==
    \/ \E p \in ps, u \in Users : AgentExecute(p, u)
    \/ \E p \in ps : AgentAfterStatusToken(p)
    \/ \E p \in ps, selected \in Selections : AgentSelected(p, selected)
    \/ \E p \in ps : AgentSelectFailed(p)
    \/ \E p \in ps : AgentAfterGateToken(p)
    \/ \E p \in ps : AgentAfterUrl(p)
    \/ \E p \in ps : AgentAfterTools(p)
    \/ \E p \in ps, plan \in Plans : AgentPlanned(p, plan)
    \/ \E p \in ps : AgentPlanFailed(p)
    \/ \E p \in ps : AgentAfterCall(p)
    \/ \E p \in ps : AgentRespond(p)
    \/ \E p \in ps : RegisterOk(p)
    \/ \E p \in ps, status \in RejectStatuses : RegisterRejected(p, status)

\* The answers of a provider's MCP endpoint to the agent: a good and a bad
\* one to each request
AgentInitializeResponses ==
    {Response("application/json", <<Line("", "{result:{}}")>>),
     Response("application/json", <<Line("", "{error:{code:-1,message:boom}}")>>)}

AgentListResponses ==
    {Response("application/json", <<Line("", "{result:{tools:[{name:x}]}}")>>),
     Response("application/json", <<Line("", "{}")>>)}

AgentCallResponses ==
    {Response("application/json", <<Line("", "{result:{content:ok}}")>>),
     Response("application/json", <<Line("", "{error:{code:-1,message:boom}}")>>)}

\* The gateway operations execute awaits, in the slots ps, past their entry
AgentGatewayStep(ps) ==
    \/ \E p \in ps : GatewayAfterToken(p)
    \/ \E p \in ps, response \in AgentInitializeResponses :
         \E sid \in ServerSessionIds(p) : GatewayInitialized(p, sid, response)
    \/ \E p \in ps, response \in AgentListResponses \cup AgentCallResponses :
         /\ response \in (IF frames[p].op = "getProviderTools" THEN AgentListResponses
                          ELSE AgentCallResponses)
         /\ GatewayAnswered(p, response)
    \/ \E p \in ps : GatewayFetchFailed(p)

\* Agent requests one at a time, while the clock advances
NextAgent ==
    \/ AgentStep(SeqProcs)
    \/ AgentGatewayStep(SeqProcs)
    \/ GetTokenSteps(SeqProcs)
    \/ Tick

SpecAgent == Init /\ [][NextAgent]_vars

GatewayProviders == ProviderIds \cup {"zeta"}

\* The session gateway in the slots ps
GatewayStep(ps, ids, initResponses, listResponses, callResponses) ==
    \/ \E p \in ps, op \in GatewayOps, u \in Users, id \in ids :
         GatewayCall(p, op, u, id)
    \/ \E p \in ps : GatewayAfterToken(p)
    \/ \E p \in ps, response \in initResponses :
         \E sid \in ServerSessionIds(p) : GatewayInitialized(p, sid, response)
    \/ \E p \in ps, response \in listResponses \cup callResponses :
         /\ response \in (IF frames[p].op = "getProviderTools" THEN listResponses
                          ELSE callResponses)
         /\ GatewayAnswered(p, response)
    \/ \E p \in ps : GatewayFetchFailed(p)
    \/ \E p \in ps : GatewayReturn(p)

\* Gateway calls one at a time, while the clock advances
NextGateway ==
    \/ GatewayStep(SeqProcs, GatewayProviders, InitializeResponses, ListResponses,
                   CallResponses)
    \/ GetTokenSteps(SeqProcs)
    \/ Tick

SpecGateway == Init /\ [][NextGateway]_vars

\* The providers and answers of the racing calls: a provider with OAuth and
\* one without, one answer to each tools request
RaceProviders == {"alpha", "gamma"}

RaceInitializeResponses ==
    {Response("application/json", <<Line("", "{result:{}}")>>)}

RaceListResponses ==
    {Response("application/json", <<Line("", "{result:{tools:[{name:x}]}}")>>)}

RaceCallResponses ==
    {Response("application/json", <<Line("", "{result:{content:ok}}")>>)}

\* Two gateway calls at a time, interleaved at their await points
NextGatewayRace ==
    \/ GatewayStep(Procs, RaceProviders, RaceInitializeResponses, RaceListResponses,
                   RaceCallResponses)
    \/ \E p \in Procs : GetTokenAfterRead(p)

SpecGatewayRace == Init /\ [][NextGatewayRace]_vars

\* Revocations and token reads one at a time, on a gateway that also hands out
\* authorization URLs and opens sessions
NextRevoke ==
    \/ \E p \in SeqProcs, u \in Users, id \in ProviderIds : RevokeToken(p, u, id)
    \/ \E p \in SeqProcs, u \in Users, id \in ProviderIds : GetToken(p, u, id)
    \/ \E p \in SeqProcs : GetTokenAfterRead(p)
    \/ \E p \in SeqProcs, u \in Users, id \in OAuthProviders :
         GetAuthorizationUrl(p, id, u)
    \/ \E p \in SeqProcs : RegisterOk(p)
    \/ \E p \in SeqProcs, status \in RejectStatuses : RegisterRejected(p, status)
    \/ \E p \in SeqProcs : Return(p)
    \/ GatewayStep(SeqProcs, RaceProviders, RaceInitializeResponses, RaceListResponses,
                   RaceCallResponses)

SpecRevoke == Init /\ [][NextRevoke]_vars

\* Token operations of one user and one provider that overlap: two callers
\* refresh, read and revoke the same token, interleaved at their await points
RaceUser == "u1"
RaceProvider == "alpha"

NextTokenRace ==
    \/ \E p \in Procs : GetToken(p, RaceUser, RaceProvider)
    \/ \E p \in Procs : GetTokenAfterRead(p)
    \/ \E p \in Procs : RefreshToken(p, RaceUser, RaceProvider)
    \/ \E p \in Procs : RefreshAfterRead(p)
    \/ \E p \in Procs, data \in TokenResponses(minted + 1) : UpstreamIssues(p, data)
    \/ \E p \in Procs : RefreshReceives(p)
    \/ \E p \in Procs, status \in RejectStatuses : RefreshRejected(p, status)
    \/ \E p \in Procs : ScheduleNext(p)
    \/ \E p \in Procs : PublishOk(p)
    \/ \E p \in Procs : RevokeToken(p, RaceUser, RaceProvider)
    \/ Tick
    \/ \E p \in Procs : Return(p)

SpecTokenRace == Init /\ [][NextTokenRace]_vars

\* Authorization flows of one provider with dynamic client registration that
\* overlap: two callers ask for a URL, each registers a client, the callbacks
\* of the states handed out follow, and the tokens they store are refreshed
NextRegisterRace ==
    \/ \E p \in Procs : GetAuthorizationUrl(p, RaceProvider, RaceUser)
    \/ \E p \in Procs, clientId \in FreshClientIds : RegisterAnswered(p, clientId)
    \/ \E p \in Procs, status \in RejectStatuses : RegisterRejected(p, status)
    \/ \E p \in Procs, code \in Codes, state \in DOMAIN issued :
         HandleCallback(p, code, state)
    \/ \E p \in Procs, data \in TokenResponses(minted + 1) : HcExchangeOk(p, data)
    \/ \E p \in Procs, status \in RejectStatuses : HcExchangeRejected(p, status)
    \/ \E p \in Procs : ScheduleNext(p)
    \/ \E p \in Procs : PublishOk(p)
    \/ \E p \in Procs : RefreshToken(p, RaceUser, RaceProvider)
    \/ \E p \in Procs : RefreshAfterRead(p)
    \/ \E p \in Procs, status \in RejectStatuses : RefreshRejected(p, status)
    \/ \E p \in Procs : Return(p)

SpecRegisterRace == Init /\ [][NextRegisterRace]_vars

\* Authorization flows from the URL to the stored token, for a user id without
\* and one with the separator of the state parameter
FlowUsers == {"u1", "u1:x"}

NextRoundTrip ==
    \/ \E p \in SeqProcs, id \in OAuthProviders, u \in FlowUsers :
         GetAuthorizationUrl(p, id, u)
    \/ \E p \in SeqProcs : RegisterOk(p)
    \/ \E p \in SeqProcs, status \in RejectStatuses : RegisterRejected(p, status)
    \/ \E p \in SeqProcs, code \in Codes, state \in DOMAIN issued :
         HandleCallback(p, code, state)
    \/ \E p \in SeqProcs, data \in TokenResponses(minted + 1) : HcExchangeOk(p, data)
    \/ \E p \in SeqProcs, status \in RejectStatuses : HcExchangeRejected(p, status)
    \/ \E p \in SeqProcs : ScheduleNext(p)
    \/ \E p \in SeqProcs : PublishOk(p)
    \/ \E p \in Procs : Return(p)

SpecRoundTrip == Init /\ [][NextRoundTrip]_vars

----------------------------------------------------------------------------
(* Properties *)

UsesPKCE(providerId) == ProviderCfg(providerId).oauth.usePKCE

Pending(state) == \E e \in codeVerifiers : e.state = state

\* C1: a handleCallback whose token exchange succeeds writes the token store
\* exactly once, under (userId, providerId, "default") of its state
\* providerId:userId:nonce, and no step of the call changes any other key.
C1_CallbackWritesOneKey ==
    /\ [](\A p \in Procs :
            (procs[p].op = "handleCallback" /\ procs[p].pc \in {"stored", "publish", "done"})
                => Len(procs[p].writes) = 1)
    /\ [][\A p \in Procs :
            LET a == procs[p]
                b == procs'[p]
                key == <<b.state[2], b.state[1], "default">>
            IN  (b.op = "handleCallback" /\ a # b) =>
                  IF b.pc = "stored"
                  THEN /\ b.writes = <<key>>
                       /\ DOMAIN store' = DOMAIN store \cup {key}
                       /\ store'[key] = b.result
                       /\ b.result.accessToken = b.data.access_token
                       /\ \A k \in DOMAIN store \ {key} : store'[k] = store[k]
                  ELSE store' = store /\ b.writes = a.writes]_vars

C1_Witness ==
    \E p \in Procs :
        /\ procs[p].op = "handleCallback" /\ procs[p].pc = "done"
        /\ procs[p].writes = <<<<"u1", "beta", "default">>>>
        /\ StoreGet(store, "u1", "alpha") = SeedToken
        /\ StoreGet(store, "u1", "beta") = procs[p].result

\* C2: for a PKCE provider, of the handleCallback calls made with one issued
\* state, in any interleaving, exactly one reaches the token exchange; every
\* other one fails with MISSING_CODE_VERIFIER, sends no request and writes
\* nothing.
C2_OneCallbackPerState ==
    /\ \A s \in DOMAIN issued :
         UsesPKCE(s[1]) => /\ issued[s] <= 1
                           /\ (issued[s] = 0 <=> Pending(s))
    /\ \A p \in Procs :
         (/\ procs[p].op = "handleCallback"
          /\ procs[p].state \in DOMAIN issued
          /\ UsesPKCE(procs[p].state[1]))
         => \/ Len(procs[p].reqs) = 1
            \/ /\ procs[p].pc = "failed"
               /\ procs[p].err = "MISSING_CODE_VERIFIER"
               /\ procs[p].reqs = <<>>
               /\ procs[p].writes = <<>>
    /\ \A p, q \in Procs :
         (/\ p # q
          /\ procs[p].op = "handleCallback" /\ procs[q].op = "handleCallback"
          /\ procs[p].state = procs[q].state
          /\ UsesPKCE(procs[p].providerId))
         => ~(procs[p].reqs # <<>> /\ procs[q].reqs # <<>>)

C2_Witness ==
    \E p, q \in Procs :
        /\ procs[p].op = "handleCallback" /\ procs[q].op = "handleCallback"
        /\ procs[p].state = procs[q].state
        /\ procs[p].state \in DOMAIN issued
        /\ UsesPKCE(procs[p].providerId)
        /\ procs[p].pc = "hc_fetch"
        /\ procs[q].pc = "failed" /\ procs[q].err = "MISSING_CODE_VERIFIER"

\* C3: once a handleCallback for a PKCE provider has sent its token request,
\* the pending-verifier table holds no entry for its state: while the answer
\* is awaited, and after the call returned or failed.
C3_VerifierConsumed ==
    \A p \in Procs :
        (/\ procs[p].op = "handleCallback"
         /\ UsesPKCE(procs[p].providerId)
         /\ procs[p].reqs # <<>>)
        => ~Pending(procs[p].state)

C3_Witness ==
    \E p \in Procs :
        /\ procs[p].op = "handleCallback"
        /\ UsesPKCE(procs[p].providerId)
        /\ procs[p].pc = "failed" /\ procs[p].err = "TOKEN_EXCHANGE_FAILED"
        /\ ~Pending(procs[p].state)

\* C4: the authorization-code exchange request carries code_verifier if and
\* only if the provider has usePKCE=true.
C4_VerifierIffPKCE ==
    \A p \in Procs :
        (procs[p].op = "handleCallback" /\ procs[p].reqs # <<>>)
        => /\ Len(procs[p].reqs) = 1
           /\ procs[p].reqs[1].body.grant_type = "authorization_code"
           /\ ("code_verifier" \in DOMAIN procs[p].reqs[1].body
                 <=> UsesPKCE(procs[p].providerId))

C4_Witness ==
    \E p \in Procs :
        /\ procs[p].op = "handleCallback"
        /\ procs[p].providerId = "beta"
        /\ procs[p].reqs # <<>>
        /\ "code_verifier" \notin DOMAIN procs[p].reqs[1].body
        /\ "client_secret" \in DOMAIN procs[p].reqs[1].body

\* C5: no request sent to the token endpoint of a provider with usePKCE=true,
\* authorization-code exchange or refresh exchange, carries client_secret.
C5_NoSecretUnderPKCE ==
    \A p \in Procs :
        \A i \in 1..Len(procs[p].reqs) :
            UsesPKCE(procs[p].providerId)
                => "client_secret" \notin DOMAIN procs[p].reqs[i].body

\* the part of C5 the code keeps: the authorization-code exchange
C5_NoSecretInCodeExchange ==
    \A p \in Procs :
        \A i \in 1..Len(procs[p].reqs) :
            (UsesPKCE(procs[p].providerId)
               /\ procs[p].reqs[i].body.grant_type = "authorization_code")
                => "client_secret" \notin DOMAIN procs[p].reqs[i].body

\* A getToken call that reached the refresh path: its token was expired when
\* getToken compared it with the clock (the clock never runs backwards)
ViaRefresh(rec) ==
    \/ rec.op = "refreshToken"
    \/ /\ rec.op = "getToken"
       /\ rec.tok # NoToken
       /\ rec.tok.expiresAt # 0
       /\ rec.tok.expiresAt < now

NoEffects(rec) == rec.reqs = <<>> /\ rec.writes = <<>> /\ rec.scheds = <<>>

\* C6: getToken returns null when the store has no token and the stored
\* token, unchanged, when it has no expiresAt or its expiresAt is not in the
\* past; in both cases it sends no request, writes nothing, schedules nothing.
C6_GetTokenUnexpired ==
    \A p \in Procs :
        LET rec == procs[p]
        IN  (/\ rec.op = "getToken" /\ rec.pc \in {"done", "failed"}
             /\ \/ rec.tok = NoToken
                \/ rec.tok.expiresAt = 0
                \/ rec.tok.expiresAt >= now)
            => /\ rec.pc = "done"
               /\ rec.result = rec.tok
               /\ StoreGet(store, rec.userId, rec.providerId) = rec.tok
               /\ NoEffects(rec)

C6_Witness ==
    \E p \in Procs :
        /\ procs[p].op = "getToken" /\ procs[p].pc = "done"
        /\ procs[p].result = SeedToken
        /\ procs[p].result.expiresAt = now
        /\ NoEffects(procs[p])

\* C7: when the stored token's expiresAt is in the past and it has a
\* refreshToken, getToken sends one refresh exchange; if upstream accepts it,
\* the token getToken returns is the newly issued one, and it is the token
\* the store holds under (user, provider, "default") when getToken returns.
C7_GetTokenRefreshes ==
    \A p \in Procs :
        LET rec == procs[p]
        IN  (/\ rec.op = "getToken" /\ rec.pc \in {"done", "failed"}
             /\ ViaRefresh(rec)
             /\ rec.tok.refreshToken # "")
            => /\ Len(rec.reqs) = 1
               /\ rec.reqs[1].body.grant_type = "refresh_token"
               /\ rec.reqs[1].body.refresh_token = rec.tok.refreshToken
               /\ rec.pc = "done" =>
                    /\ rec.result.accessToken = rec.data.access_token
                    /\ rec.result.accessToken # rec.tok.accessToken
                    /\ rec.result.issuedAt > rec.tok.issuedAt
                    /\ StoreGet(store, rec.userId, rec.providerId) = rec.result

C7_Witness ==
    \E p \in Procs :
        /\ procs[p].op = "getToken" /\ procs[p].pc = "done"
        /\ procs[p].tok = SeedToken
        /\ procs[p].result.accessToken = "at1"
        /\ StoreGet(store, "u1", "alpha") = procs[p].result

\* C8: a refresh exchange is sent only for a stored token that has a
\* refreshToken; refreshToken, and getToken on an expired token, fail with
\* NO_REFRESH_TOKEN when no token or no refreshToken is on file, and then
\* send no request and leave the store as it was.
C8_NoRefreshToken ==
    \A p \in Procs :
        LET rec == procs[p]
            onFile == StoreGet(store, rec.userId, rec.providerId)
        IN  /\ \A i \in 1..Len(rec.reqs) :
                 rec.reqs[i].body.grant_type = "refresh_token"
                     => /\ rec.prior.refreshToken # ""
                        /\ rec.reqs[i].body.refresh_token = rec.prior.refreshToken
            /\ (/\ rec.pc \in {"done", "failed"}
                /\ ViaRefresh(rec)
                /\ rec.writes = <<>>
                /\ onFile.refreshToken = "")
               => /\ rec.pc = "failed"
                  /\ rec.err = "NO_REFRESH_TOKEN"
                  /\ rec.reqs = <<>>
                  /\ onFile = rec.prior

C8_Witness ==
    \E p \in Procs :
        /\ procs[p].op = "getToken"
        /\ procs[p].pc = "failed" /\ procs[p].err = "NO_REFRESH_TOKEN"
        /\ procs[p].tok # NoToken
        /\ StoreGet(store, "u1", procs[p].providerId) = procs[p].tok

\* C9: after a successful refresh the persisted refreshToken is the one
\* upstream returned, if it returned one, and otherwise the one stored before
\* the refresh; a stored refreshToken is never lost by a refresh.
C9_RefreshTokenRetained ==
    \A p \in Procs :
        LET rec == procs[p]
            expected == IF rec.data.refresh_token # "" THEN rec.data.refresh_token
                        ELSE rec.prior.refreshToken
        IN  (rec.op \in {"refreshToken", "getToken"} /\ rec.writes # <<>>)
            => /\ rec.result.refreshToken = expected
               /\ rec.prior.refreshToken # ""
               /\ StoreGet(store, rec.userId, rec.providerId).refreshToken = expected
               /\ StoreGet(store, rec.userId, rec.providerId).refreshToken # ""

C9_Witness ==
    \E p \in Procs :
        /\ procs[p].op = "refreshToken" /\ procs[p].pc = "done"
        /\ procs[p].data.refresh_token = ""
        /\ StoreGet(store, "u1", "alpha").refreshToken = "rt0"
        /\ StoreGet(store, "u1", "alpha").accessToken = "at1"

\* C10: when handleCallback or refreshToken has persisted a token with an
\* expiry it requests one scheduleRefresh, for that userId and providerId,
\* accountId "default" and runAt = max(0, expiresAt - leadMs), leadMs being the
\* provider's configured lead time or 600000; expires_in=3600 issued at T with
\* the default lead gives runAt = T + 3000000; for a token without expiry it
\* requests none.
C10_ScheduledRunAt ==
    \A p \in Procs :
        LET rec == procs[p]
            lead == IF rec.providerId = "beta" THEN 9000000 ELSE 600000
            diff == rec.result.expiresAt - lead
        IN  /\ (rec.writes # <<>> /\ rec.pc \in {"publish", "done", "failed"})
               => IF rec.result.expiresAt # 0
                  THEN /\ rec.scheds =
                            <<[userId |-> rec.userId, providerId |-> rec.providerId,
                               accountId |-> "default",
                               runAt |-> IF diff > 0 THEN diff ELSE 0]>>
                       /\ (rec.providerId = "alpha" /\ rec.data.expires_in = 3600)
                            => rec.scheds[1].runAt = rec.result.issuedAt + 3000000
                  ELSE rec.scheds = <<>>
            /\ rec.writes = <<>> => rec.scheds = <<>>

C10_Witness ==
    \E p \in Procs :
        /\ procs[p].op = "handleCallback" /\ procs[p].pc = "done"
        /\ procs[p].providerId = "alpha"
        /\ procs[p].data.expires_in = 3600
        /\ procs[p].scheds # <<>>
        /\ procs[p].scheds[1].runAt = now + 3000000

\* C11: scheduleRefresh is requested only after the store write of the token
\* has completed, and when the publish fails the call fails while the newly
\* written token stays in the store: it is neither removed nor replaced by
\* the token that was there before.
C11_PublishFailureKeepsToken ==
    \A p \in Procs :
        LET rec == procs[p]
        IN  /\ rec.scheds # <<>> =>
                 /\ rec.writes = <<<<rec.userId, rec.providerId, "default">>>>
                 /\ rec.result.expiresAt # 0
                 /\ StoreGet(store, rec.userId, rec.providerId) = rec.result
                 /\ StoreGet(store, rec.userId, rec.providerId) # rec.prior
            /\ (rec.pc = "failed" /\ rec.writes # <<>>) =>
                 /\ rec.scheds # <<>>
                 /\ rec.err = ""

C11_Witness ==
    \E p \in Procs :
        /\ procs[p].op = "refreshToken"
        /\ procs[p].pc = "failed"
        /\ procs[p].scheds # <<>>
        /\ procs[p].prior = SeedToken
        /\ StoreGet(store, "u1", "alpha").accessToken = "at1"

\* The request of the caller in slot p fails the signature check of a gateway
\* that has an inbound signing key
BadSignature(p) ==
    /\ frames[p].op = "refreshRoute"
    /\ inboundSigningKey # ""
    /\ frames[p].sig # Hmac(inboundSigningKey, frames[p].body)

\* C12: with an inbound signing key configured, a request to the refresh
\* endpoint whose X-Signature is not base64(HMAC-SHA256(key, raw body)) is
\* answered 401 before the body is parsed; no refreshToken call, token
\* request, store write or scheduleRefresh comes of it and the store is as
\* it was.
C12_BadSignatureRejected ==
    /\ [](\A p \in Procs :
            BadSignature(p) =>
                /\ frames[p].pc = "responded"
                /\ frames[p].status = 401
                /\ frames[p].reply = [error |-> "invalid_signature"]
                /\ frames[p].userId = "" /\ frames[p].accountId = ""
                /\ frames[p].refreshes = 0
                /\ frames[p].scheds = <<>>
                /\ procs[p] = IdleProc)
    /\ [][\A p \in Procs :
            (BadSignature(p) \/ BadSignature(p)')
                => /\ store' = store
                   /\ procs' = procs
                   /\ minted' = minted]_vars

C12_Witness ==
    \E p \in Procs :
        /\ BadSignature(p)
        /\ frames[p].sig = Hmac("k0", frames[p].body)
        /\ frames[p].body = <<<<"userId", "u1">>>>
        /\ frames[p].providerId = "alpha"
        /\ frames[p].status = 401
        /\ StoreGet(store, "u1", "alpha") = SeedToken

\* C13: in every configuration of the gateway the inbound refresh trigger
\* calls refreshToken only for a request whose signature has been verified:
\* a request with an absent or unverifiable X-Signature never reaches it.
C13_RefreshOnlyIfVerified ==
    \A p \in Procs :
        (frames[p].op = "refreshRoute" /\ frames[p].refreshes > 0)
            => /\ frames[p].verified
               /\ frames[p].sig # NoSignature

\* C14: when the refresh called by the inbound endpoint fails with
\* NO_REFRESH_TOKEN or TOKEN_REFRESH_FAILED the answer is 409 with that code
\* and a reauthorization URL for the same provider and user; any other
\* refresh failure is answered 500; the refresh is never tried again.
C14_RefreshFailureAnswer ==
    \A p \in Procs :
        LET frame == frames[p]
        IN  /\ frame.refreshes <= 1
            /\ (frame.op = "refreshRoute" /\ frame.pc = "responded"
                  /\ frame.call.pc = "failed")
               => IF frame.call.err \in {"NO_REFRESH_TOKEN", "TOKEN_REFRESH_FAILED"}
                  THEN /\ frame.status = 409
                       /\ frame.reply.error = frame.call.err
                       /\ "reauthorizeUrl" \in DOMAIN frame.reply
                       /\ ParseState(frame.reply.reauthorizeUrl[2].state) =
                            [providerId |-> frame.providerId, userId |-> frame.userId]
                  ELSE frame.status = 500

GatewayFrame(p) == frames[p].op \in GatewayOps

SessionKeyOf(p) == <<frames[p].userId, frames[p].providerId>>

\* The requests of the call in slot p that have the given method
RequestsOf(p, method) ==
    {i \in 1..Len(frames[p].reqs) : frames[p].reqs[i].method = method}

\* The call in slot p sends an initialize request in this step
SendsInitialize(p) ==
    /\ GatewayFrame(p)'
    /\ frames'[p].reqs # <<>>
    /\ frames'[p].reqs[Len(frames'[p].reqs)].method = "initialize"
    /\ frames'[p].reqs # frames[p].reqs

\* C15: with gateway calls made one after the other, the calls for one
\* (user, provider) send exactly one initialize request once a handshake has
\* succeeded: no initialize is sent after it, so two consecutive
\* getProviderTools calls make one handshake.
C15_OneHandshake ==
    /\ [](\A p \in Procs :
            /\ (GatewayFrame(p) /\ frames[p].pc \in {"call_token", "call_fetch", "done"})
                 => /\ handshakes[SessionKeyOf(p)].ok = 1
                    /\ Cardinality(RequestsOf(p, "initialize")) =
                         (IF frames[p].cached = "" THEN 1 ELSE 0)
            /\ (GatewayFrame(p) /\ frames[p].cached # "")
                 => RequestsOf(p, "initialize") = {})
    /\ [][\A p \in Procs :
            SendsInitialize(p) => handshakes[SessionKeyOf(p)'].ok = 0]_vars

C15_Witness ==
    \E p \in Procs :
        /\ frames[p].op = "getProviderTools"
        /\ frames[p].pc = "done"
        /\ frames[p].cached # ""
        /\ Len(frames[p].reqs) = 1
        /\ frames[p].reqs[1].method = "tools/list"
        /\ handshakes[SessionKeyOf(p)].ok = 1

\* C16: once the session cache holds an id for a (user, provider) the id
\* never changes and is never removed, and every tools/list and tools/call for
\* the pair carries that id, under any interleaving of concurrent gateway
\* calls, two calls that both miss the cache included.
C16_SessionIdStable ==
    /\ \A key \in SessionKeys :
         handshakes[key].first # "" => sessions[key] = handshakes[key].first
    /\ \A p \in Procs :
         GatewayFrame(p) =>
            \A i \in 1..Len(frames[p].reqs) :
                frames[p].reqs[i].method # "initialize"
                    => frames[p].reqs[i].headers["Mcp-Session-Id"] =
                         handshakes[SessionKeyOf(p)].first

\* The Authorization header the manager's answer calls for: the token that
\* getToken returned to the call in slot p, none for a provider without OAuth
ExpectedBearer(p) ==
    IF /\ ProviderCfg(frames[p].providerId).hasOAuth
       /\ frames[p].call.op = "getToken"
       /\ frames[p].call.pc = "done"
       /\ frames[p].call.result # NoToken
    THEN [Authorization |-> frames[p].call.result.accessToken]
    ELSE <<>>

\* C17: the initialize request carries no session header; every tools/list
\* and tools/call request carries the session id cached for its (user,
\* provider); a request carries a bearer Authorization header exactly when
\* getToken returned a token for it, never for a provider without OAuth.
C17_RequestHeaders ==
    \A p \in Procs :
        GatewayFrame(p) =>
            /\ \A i \in 1..Len(frames[p].reqs) :
                 LET req == frames[p].reqs[i]
                 IN  IF req.method = "initialize"
                     THEN "Mcp-Session-Id" \notin DOMAIN req.headers
                     ELSE /\ "Mcp-Session-Id" \in DOMAIN req.headers
                          /\ req.headers["Mcp-Session-Id"] # ""
                          /\ req.headers["Mcp-Session-Id"] = sessions[SessionKeyOf(p)]
                          /\ req.method = ToolsMethod(frames[p].op)
            /\ frames[p].pc \in {"init_fetch", "call_fetch", "done"}
                 => LET req == frames[p].reqs[Len(frames[p].reqs)]
                        auth == [h \in DOMAIN req.headers \ {"Mcp-Session-Id"}
                                   |-> req.headers[h]]
                    IN  auth = ExpectedBearer(p)
            /\ ~ProviderCfg(frames[p].providerId).hasOAuth
                 => \A i \in 1..Len(frames[p].reqs) :
                       "Authorization" \notin DOMAIN frames[p].reqs[i].headers

C17_Witness ==
    \E p \in Procs :
        /\ frames[p].op = "getProviderTools"
        /\ frames[p].providerId = "alpha"
        /\ frames[p].pc = "done"
        /\ Len(frames[p].reqs) = 2
        /\ frames[p].reqs[1] = [method |-> "initialize",
                                headers |-> [Authorization |-> "at0"]]
        /\ frames[p].reqs[2].headers["Mcp-Session-Id"] = "srv-1"
        /\ frames[p].reqs[2].headers["Authorization"] = "at0"
        /\ sessions[<<"u1", "alpha">>] = "srv-1"

\* A tools/call response has been decoded by the call in slot p
CallDecoded(p) ==
    /\ frames[p].op = "executeProviderTool"
    /\ frames[p].pc \in {"done", "failed"}
    /\ frames[p].decoded # <<>>
    /\ frames[p].reqs # <<>>
    /\ frames[p].reqs[Len(frames[p].reqs)].method = "tools/call"
    /\ frames[p].decoded.valid

UnknownProviderCall(p) ==
    /\ frames[p].op = "executeProviderTool"
    /\ frames[p].providerId \notin ProviderIds

\* C18: executeProviderTool fails with ProviderNotFound for a provider id that
\* is not in the registry, before any token read, handshake, request or
\* session-cache write; otherwise a decoded tools/call response with an error
\* member makes it fail with the upstream error message, and one without makes
\* it return the result member as it is.
C18_ToolCallOutcome ==
    /\ [](\A p \in Procs :
            /\ UnknownProviderCall(p) =>
                 /\ frames[p].pc = "failed" /\ frames[p].err = "ProviderNotFound"
                 /\ frames[p].reqs = <<>>
                 /\ frames[p].call = IdleProc
                 /\ procs[p] = IdleProc
            /\ CallDecoded(p) =>
                 IF frames[p].decoded.hasError
                 THEN /\ frames[p].pc = "failed"
                      /\ frames[p].decoded.message # ""
                           => frames[p].err = frames[p].decoded.message
                      /\ frames[p].text = <<Line("", "{error:{code:-1,message:boom}}")>>
                           => frames[p].err = "boom"
                 ELSE /\ frames[p].pc = "done"
                      /\ frames[p].result = <<frames[p].decoded.payload>>
                      /\ frames[p].text = <<Line("", "{result:{content:ok}}")>>
                           => frames[p].result = <<"{content:ok}">>)
    /\ [][\A p \in Procs :
            UnknownProviderCall(p)' =>
                UNCHANGED <<store, procs, sessions, handshakes, minted>>]_vars

C18_Witness ==
    \E p \in Procs :
        /\ CallDecoded(p)
        /\ frames[p].pc = "failed"
        /\ frames[p].err = "boom"
        /\ frames[p].cached # ""

\* The index of the first line of a body that begins with "data: ", 0 if none
FirstDataFrame(text) ==
    IF \E i \in 1..Len(text) : text[i][1] = "data: "
    THEN CHOOSE i \in 1..Len(text) :
           /\ text[i][1] = "data: "
           /\ \A j \in 1..(i - 1) : text[j][1] # "data: "
    ELSE 0

\* C19: a response whose content type declares text/event-stream decodes to
\* the JSON of its first line that begins with the data prefix, any other
\* response to the JSON of its whole body, an empty body to the empty object;
\* the event-stream body 'data: {"result":{"tools":[]}}' gives getProviderTools
\* an empty list and the plain body '{"result":{"tools":[{"name":"x"}]}}' a
\* list of one tool.
C19_ResponseDecoding ==
    \A p \in Procs :
        LET frame == frames[p]
            declared == frame.ctype \in {"text/event-stream",
                                         "text/event-stream; charset=utf-8"}
            first == FirstDataFrame(frame.text)
        IN  (GatewayFrame(p) /\ frame.decoded # <<>>) =>
              /\ (declared /\ first # 0) => frame.decoded = JsonParse(frame.text[first][2])
              /\ (~declared /\ frame.text # <<>>) =>
                    frame.decoded =
                      (IF Len(frame.text) = 1 /\ frame.text[1][1] = ""
                       THEN JsonParse(frame.text[1][2]) ELSE SyntaxError)
              /\ frame.text = <<>> => frame.decoded = EmptyDoc
              /\ (frame.op = "getProviderTools" /\ frame.pc = "done") =>
                    /\ (declared /\ frame.text =
                                      <<Line("data: ", "{result:{tools:[]}}")>>)
                          => frame.result = <<>>
                    /\ (~declared /\ frame.text =
                                      <<Line("", "{result:{tools:[{name:x}]}}")>>)
                          => frame.result = <<"x">>
                    /\ frame.text = <<>> => frame.result = <<>>

C19_Witness ==
    \E p \in Procs :
        /\ frames[p].op = "getProviderTools"
        /\ frames[p].pc = "done"
        /\ frames[p].ctype = "text/event-stream; charset=utf-8"
        /\ Len(DataLines(frames[p].text)) = 2
        /\ frames[p].result = <<"x">>

\* getAuthorizationUrl in slot p sends a registration request in this step
Registers(p) ==
    /\ procs'[p].op = "getAuthorizationUrl"
    /\ procs'[p].pc = "au_register"
    /\ procs[p].pc # "au_register"

ReturnsUrl(p) ==
    /\ procs'[p].op = "getAuthorizationUrl"
    /\ procs'[p].pc = "done"
    /\ procs[p].pc # "done"

\* C21: an authorization URL returned for a provider with usePKCE=true has
\* code_challenge and code_challenge_method=S256, and when it is returned the
\* pending-verifier table holds a verifier under the state of that URL, the
\* one the challenge was made from; for a provider without PKCE the URL has
\* neither parameter and the table is unchanged.
C21_UrlCarriesChallenge ==
    /\ [](\A p \in Procs :
            (procs[p].op = "getAuthorizationUrl" /\ procs[p].pc = "done") =>
               LET query == procs[p].url[2]
                   held == {e \in codeVerifiers : e.state = query.state}
               IN  /\ query.state = procs[p].state
                   /\ IF UsesPKCE(procs[p].providerId)
                      THEN /\ "code_challenge" \in DOMAIN query
                           /\ "code_challenge_method" \in DOMAIN query
                           /\ query.code_challenge_method = "S256"
                           /\ Cardinality(held) = 1
                           /\ \A e \in held :
                                query.code_challenge = <<"S256", e.verifier>>
                      ELSE /\ "code_challenge" \notin DOMAIN query
                           /\ "code_challenge_method" \notin DOMAIN query)
    /\ [][\A p \in Procs :
            ReturnsUrl(p) =>
               IF UsesPKCE(procs'[p].providerId)
               THEN {e \in codeVerifiers' : e.state # procs'[p].state} =
                    {e \in codeVerifiers : e.state # procs'[p].state}
               ELSE codeVerifiers' = codeVerifiers]_vars

C21_Witness ==
    \E p \in Procs :
        /\ procs[p].op = "getAuthorizationUrl"
        /\ procs[p].pc = "done"
        /\ procs[p].providerId = "alpha"
        /\ procs[p].regs = 1
        /\ procs[p].url[2].code_challenge = <<"S256", "v1">>
        /\ codeVerifiers = {[state |-> procs[p].state, verifier |-> "v1"]}

\* C22: the state is single-use for every provider, with or without PKCE:
\* a state leads handleCallback to a token exchange at most once, and a state
\* that getAuthorizationUrl never issued is never accepted.
C22_StateSingleUse ==
    /\ \A s \in DOMAIN issued : issued[s] <= 1
    /\ \A p \in Procs :
         (procs[p].op = "handleCallback" /\ procs[p].reqs # <<>>)
            => procs[p].state \in DOMAIN issued

Range(seq) == {seq[i] : i \in 1..Len(seq)}

\* getProviderAuthStatus of the execute in slot p has ended
StatusReported(p) ==
    /\ frames[p].op = "execute"
    /\ frames[p].pc # "status_token"

\* C23: for every state of the token store the status report of the
\* capability gate has exactly one entry {id, authenticated} per configured
\* provider: true for a provider without OAuth, and for a provider with OAuth
\* true if and only if the user has a usable token, the store state where the
\* token is expired and cannot be refreshed included.
C23_StatusReport ==
    \A p \in Procs :
        StatusReported(p) =>
            /\ Len(frames[p].statuses) = Len(ProviderOrder)
            /\ \A i \in 1..Len(frames[p].statuses) :
                 LET entry == frames[p].statuses[i]
                 IN  /\ entry.id = ProviderOrder[i]
                     /\ ~ProviderCfg(entry.id).hasOAuth => entry.authenticated
                     /\ ProviderCfg(entry.id).hasOAuth
                          => (entry.authenticated <=>
                                StoreGet(store, frames[p].userId, entry.id) # NoToken)

\* The needs-authorization signal in the answer of the execute in slot p
NeedsAuth(p) ==
    /\ frames[p].op = "execute"
    /\ frames[p].pc = "responded"
    /\ "error" \in DOMAIN frames[p].reply
    /\ "data" \in DOMAIN frames[p].reply.error

\* The selected providers that have OAuth and no token on file for the user
Unauthenticated(p) ==
    {id \in Range(frames[p].selected) :
        /\ ProviderCfg(id).hasOAuth
        /\ StoreGet(store, frames[p].userId, id) = NoToken}

\* The execute in slot p has left its gating loop for the loading of the tools
PastGate(p) ==
    /\ frames[p].selected # <<>>
    /\ \/ frames[p].op \in GatewayOps
       \/ frames[p].op = "execute" /\ frames[p].pc = "plan"
       \/ frames[p].op = "execute" /\ "result" \in DOMAIN frames[p].reply

C25_NoBrowserOpen ==
    \A p \in Procs : frames[p].op = "execute" => frames[p].opened = <<>>

\* revokeToken is called in slot p in this step
Revokes(p) ==
    /\ procs'[p].op = "revokeToken"
    /\ procs[p].op # "revokeToken"

\* getToken is called in slot p in this step
ReadsToken(p) ==
    /\ procs'[p].op = "getToken"
    /\ procs[p].op # "getToken"

\* C26: revokeToken(user, provider) removes the store record under (user,
\* provider, "default") and no other, sends no request, and changes neither
\* the session cache, the registered-client cache nor the pending-verifier
\* table; a getToken for the pair that starts from the store it leaves returns
\* null without sending a request.
C26_RevokeFrame ==
    /\ [][\A p \in Procs :
            Revokes(p) =>
               LET key == <<procs'[p].userId, procs'[p].providerId, "default">>
               IN  /\ DOMAIN store' = DOMAIN store \ {key}
                   /\ \A k \in DOMAIN store' : store'[k] = store[k]
                   /\ procs'[p].pc = "done"
                   /\ procs'[p].reqs = <<>> /\ procs'[p].scheds = <<>>
                   /\ UNCHANGED <<sessions, registeredClients, codeVerifiers, frames>>]_vars
    /\ [][\A p \in Procs :
            (/\ ReadsToken(p)
             /\ <<procs'[p].userId, procs'[p].providerId, "default">> \notin DOMAIN store)
               => procs'[p].tok = NoToken]_vars
    /\ [](\A p \in Procs :
            (procs[p].op = "getToken" /\ procs[p].tok = NoToken /\ procs[p].pc # "gt_read")
               => /\ procs[p].pc = "done"
                  /\ procs[p].result = NoToken
                  /\ procs[p].reqs = <<>>)

C26_Witness ==
    \E p \in Procs :
        /\ procs[p].op = "revokeToken"
        /\ procs[p].pc = "done"
        /\ procs[p].providerId = "alpha"
        /\ procs[p].prior # NoToken
        /\ StoreGet(store, procs[p].userId, "alpha") = NoToken
        /\ sessions[<<procs[p].userId, "alpha">>] # ""
        /\ registeredClients["alpha"] # ""
        /\ codeVerifiers # {}

-----------------------------------------------------------------------------
(* Error codes *)

\* The codes the manager passes to the OAuthError constructor
OAuthErrorCodes ==
    {"INVALID_STATE", "UNKNOWN_PROVIDER", "NO_CLIENT_ID", "MISSING_CODE_VERIFIER",
     "TOKEN_EXCHANGE_FAILED", "NO_REGISTRATION_ENDPOINT", "REGISTRATION_FAILED",
     "NO_REFRESH_TOKEN", "TOKEN_REFRESH_FAILED"}

\* C28: every failure raised by a component carries a machine-readable code;
\* no failure is a bare message without a code.  A call of the manager that
\* has failed carries one of the codes given to OAuthError.
C28_FailureCarriesCode ==
    \A p \in Procs :
        procs[p].pc = "failed" => procs[p].err \in OAuthErrorCodes

-----------------------------------------------------------------------------
(* handleCallback: the checks on the state parameter *)

\* The state has a non-empty first and a non-empty second segment
YieldsBoth(state) == Len(state) >= 2 /\ state[1] # "" /\ state[2] # ""

\* C29: handleCallback fails with INVALID_STATE exactly when the state does not
\* yield both a provider id and a user id, and otherwise with UNKNOWN_PROVIDER
\* exactly when the provider has no OAuth spec; in both cases no request is
\* sent, nothing is stored or scheduled, and the step that rejects the callback
\* leaves the token store and the pending-verifier table as they were.
C29_StateChecks ==
    /\ [](\A p \in Procs :
            procs[p].op = "handleCallback" =>
              LET rec == procs[p]
              IN  /\ ~YieldsBoth(rec.state) <=>
                       (rec.pc = "failed" /\ rec.err = "INVALID_STATE")
                  /\ (YieldsBoth(rec.state) /\ rec.state[1] \notin ConfiguredOAuth) <=>
                       (rec.pc = "failed" /\ rec.err = "UNKNOWN_PROVIDER")
                  /\ rec.err \in {"INVALID_STATE", "UNKNOWN_PROVIDER"} => NoEffects(procs[p]))
    /\ [][\A p \in Procs :
            (/\ procs[p].op # "handleCallback"
             /\ procs'[p].op = "handleCallback"
             /\ procs'[p].err \in {"INVALID_STATE", "UNKNOWN_PROVIDER"})
            => /\ store' = store
               /\ codeVerifiers' = codeVerifiers]_vars

\* A callback whose state has an empty provider segment, which no provider is
\* configured under either, is rejected as INVALID_STATE while a verifier is pending
C29_Witness ==
    \E p \in Procs :
        /\ procs[p].op = "handleCallback"
        /\ procs[p].state = <<"", "u1", "n0">>
        /\ procs[p].pc = "failed" /\ procs[p].err = "INVALID_STATE"
        /\ NoEffects(procs[p])
        /\ codeVerifiers # {}

-----------------------------------------------------------------------------
(* Rejection by the token endpoint *)

\* The call in slot p has just been answered by the token endpoint with a
\* status that is not a success
EndpointRejects(p) ==
    /\ procs[p].pc \in {"hc_fetch", "rt_fetch"}
    /\ procs'[p].pc = "failed"
    /\ procs'[p].status # 0

\* C30: when the token endpoint rejects the request, handleCallback fails with
\* TOKEN_EXCHANGE_FAILED and a refresh fails with TOKEN_REFRESH_FAILED, each
\* with the upstream status; the step leaves the token store as it was, and the
\* failed call has written no token and scheduled no refresh.
C30_EndpointRejection ==
    /\ [](\A p \in Procs :
            LET rec == procs[p]
            IN  /\ rec.err = "TOKEN_EXCHANGE_FAILED" =>
                     /\ rec.op = "handleCallback" /\ rec.pc = "failed"
                     /\ rec.status \in RejectStatuses
                     /\ rec.writes = <<>> /\ rec.scheds = <<>>
                /\ rec.err = "TOKEN_REFRESH_FAILED" =>
                     /\ rec.op \in {"refreshToken", "getToken"} /\ rec.pc = "failed"
                     /\ rec.status \in RejectStatuses
                     /\ rec.writes = <<>> /\ rec.scheds = <<>>)
    /\ [][\A p \in Procs :
            EndpointRejects(p) =>
              /\ procs'[p].err = IF procs[p].pc = "hc_fetch"
                                 THEN "TOKEN_EXCHANGE_FAILED"
                                 ELSE "TOKEN_REFRESH_FAILED"
              /\ store' = store]_vars

\* A refresh of an expired stored token was rejected with 400 and the store
\* still holds that token
C30_Witness ==
    \E p \in Procs :
        LET rec == procs[p]
        IN  /\ rec.pc = "failed" /\ rec.err = "TOKEN_REFRESH_FAILED"
            /\ rec.status = 400
            /\ rec.prior # NoToken
            /\ IsExpired(rec.prior, now)
            /\ StoreGet(store, rec.userId, rec.providerId) = rec.prior

-----------------------------------------------------------------------------
(* No internal retry *)

TokenOps == {"handleCallback", "refreshToken", "getToken"}

\* C31: one invocation of handleCallback, refreshToken or getToken sends at
\* most one request to the token endpoint, whatever the endpoint answers: the
\* call never holds more than one request, a step adds at most one, and a call
\* that has failed sends nothing more.
C31_NoRetry ==
    /\ [](\A p \in Procs : procs[p].op \in TokenOps => Len(procs[p].reqs) <= 1)
    /\ [][\A p \in Procs :
            /\ (procs[p].op \in TokenOps /\ procs[p].reqs # <<>>) =>
                 (procs'[p].reqs = procs[p].reqs \/ procs'[p] = IdleProc)
            /\ (procs[p].op \in TokenOps /\ procs[p].pc = "failed") =>
                 (procs'[p] = procs[p] \/ procs'[p] = IdleProc)]_vars

\* A getToken that found an expired token sent one refresh request, was
\* rejected and has failed with that one request
C31_Witness ==
    \E p \in Procs :
        /\ procs[p].op = "getToken"
        /\ procs[p].pc = "failed" /\ procs[p].err = "TOKEN_REFRESH_FAILED"
        /\ Len(procs[p].reqs) = 1

-----------------------------------------------------------------------------
(* The inbound refresh endpoint: rescheduling *)

\* The inbound refresh request in slot p has been answered with success for a
\* token that expires
RefreshedWithExpiry(p) ==
    /\ frames[p].op = "refreshRoute"
    /\ frames[p].pc = "responded"
    /\ frames[p].status = 200
    /\ frames[p].call.result.expiresAt # 0

\* The scheduleRefresh requests the inbound refresh request in slot p has
\* produced: those of refreshToken, then those of the handler
ScheduledBy(p) == frames[p].call.scheds \o frames[p].scheds

\* C32: a successful call to the inbound refresh endpoint produces exactly one
\* scheduleRefresh request for the refreshed token, and the nextRunAt of the
\* answer is the runAt of that request, max(0, expiresAt - leadMs).
C32_SingleReschedule ==
    \A p \in Procs :
        RefreshedWithExpiry(p) =>
          LET frame == frames[p]
              runAt == Max(0, frame.call.result.expiresAt
                                - LeadOf(ProviderCfg(frame.providerId)))
          IN  /\ Len(ScheduledBy(p)) = 1
              /\ ScheduledBy(p)[1].runAt = runAt
              /\ frame.reply.nextRunAt = runAt

\* The last element of a non-empty sequence
Last(seq) == seq[Len(seq)]

\* The store holds under the key the request names a token whose expiry gives
\* the runAt of the request
NamesStoredToken(input) ==
    LET key == <<input.userId, input.providerId, input.accountId>>
    IN  /\ key \in DOMAIN store
        /\ store[key].expiresAt # 0
        /\ input.runAt = Max(0, store[key].expiresAt
                                  - LeadOf(ProviderCfg(input.providerId)))

\* C33: every scheduleRefresh request names a (userId, providerId, accountId)
\* under which the store holds, when the request is made, the token whose
\* expiry produced runAt; an inbound refresh request with another accountId
\* than "default" schedules nothing for an account whose token was not the
\* one refreshed and written.
C33_ScheduleNamesStoredToken ==
    /\ \A p \in Procs :
         procs[p].pc = "publish" => NamesStoredToken(Last(procs[p].scheds))
    /\ \A p \in Procs :
         (frames[p].op = "refreshRoute" /\ frames[p].pc = "publish") =>
           NamesStoredToken(Last(frames[p].scheds))

-----------------------------------------------------------------------------
(* Overlapping token operations *)

\* C34: once revokeToken(user, provider) has completed, the store holds no
\* token for the pair until a later handleCallback for it succeeds; a refresh
\* that was in flight when the revoke ran does not write a token back.  So a
\* step that puts a token where the store held none is the write of a
\* handleCallback.
C34_NoWriteBackAfterRevoke ==
    [][\A u \in Users, id \in ProviderIds :
         (StoreGet(store, u, id) = NoToken /\ StoreGet(store', u, id) # NoToken) =>
           \E p \in Procs :
               /\ procs'[p].op = "handleCallback"
               /\ procs[p].pc = "hc_fetch" /\ procs'[p].pc = "stored"
               /\ procs'[p].userId = u /\ procs'[p].providerId = id]_vars

\* The position of an answer in the order the token endpoint issued them
IssueNo(data) == CHOOSE n \in 1..5 : AccessStr(n) = data.access_token

\* The getToken in slot p found the stored token expired, refreshed it, and
\* has written the token the endpoint issued
RefreshedExpired(p) ==
    /\ procs[p].op = "getToken"
    /\ procs[p].pc \in {"stored", "publish", "done"}
    /\ procs[p].prior # NoToken
    /\ procs[p].tok = procs[p].prior

\* C35: when two concurrent callers both observe the same expired token and
\* both refresh it, and the endpoint accepts both, then after both have
\* written, the store holds the token (access token and refresh token) of the
\* later of the two exchanges, never the earlier, superseded one.
C35_LaterExchangeWins ==
    \A p, q \in Procs :
        (/\ p # q
         /\ RefreshedExpired(p) /\ RefreshedExpired(q)
         /\ procs[p].prior = procs[q].prior
         /\ IssueNo(procs[p].data) < IssueNo(procs[q].data))
        => LET stored == StoreGet(store, RaceUser, RaceProvider)
           IN  /\ stored.accessToken = procs[q].result.accessToken
               /\ stored.refreshToken = procs[q].result.refreshToken

\* C36: for every state issued by getAuthorizationUrl, the client_id that
\* handleCallback sends in the authorization-code exchange for that state is
\* the client_id of the authorization URL that carried the state, however
\* concurrent getAuthorizationUrl calls of a provider with dynamic client
\* registration interleave.
C36_ExchangeClientMatchesUrl ==
    \A p \in Procs :
        (/\ procs[p].op = "handleCallback"
         /\ procs[p].reqs # <<>>
         /\ procs[p].state \in DOMAIN handedOut)
        => procs[p].reqs[1].body.client_id = handedOut[procs[p].state].clientId

\* The call in slot q refreshes the token that the handleCallback in slot p
\* obtained and stored
RefreshesTokenOf(q, p) ==
    /\ procs[p].op = "handleCallback"
    /\ procs[p].pc \in {"stored", "publish", "done"}
    /\ procs[q].op \in {"refreshToken", "getToken"}
    /\ procs[q].reqs # <<>>
    /\ procs[q].userId = procs[p].userId
    /\ procs[q].providerId = procs[p].providerId
    /\ procs[q].prior = procs[p].result

\* C37: the client_id sent in a refresh exchange is the client_id that was
\* sent in the authorization-code exchange that created the token, also for a
\* provider whose client id was obtained by dynamic registration.
C37_RefreshClientMatchesExchange ==
    \A p, q \in Procs :
        RefreshesTokenOf(q, p) =>
          procs[q].reqs[1].body.client_id = procs[p].reqs[1].body.client_id

-----------------------------------------------------------------------------
(* The state parameter: round trip *)

\* C38: for any providerId and userId accepted by getAuthorizationUrl, the
\* state it issued makes handleCallback recover exactly that providerId and
\* that userId, and the token is stored under the user who started the flow,
\* also when the userId contains the ':' separator.
C38_StateRoundTrip ==
    \A p \in Procs :
        (procs[p].op = "handleCallback" /\ procs[p].state \in DOMAIN handedOut) =>
          LET flow == handedOut[procs[p].state]
          IN  /\ procs[p].providerId = flow.providerId
              /\ procs[p].userId = flow.userId
              /\ \A i \in 1..Len(procs[p].writes) :
                   procs[p].writes[i] = <<flow.userId, flow.providerId, "default">>

-----------------------------------------------------------------------------
(* The session gateway: a failed handshake *)

\* The gateway call in slot p has failed in its initialize handshake: the
\* request failed, or its answer had an error member, so that initializeSession
\* gave it no session id
HandshakeFailed(p) ==
    /\ GatewayFrame(p)
    /\ frames[p].pc = "failed"
    /\ frames[p].reqs # <<>>
    /\ frames[p].reqs[Len(frames[p].reqs)].method = "initialize"
    /\ frames[p].sessionId = ""

\* C39: when the initialize handshake for a (user, provider) fails, the calling
\* getProviderTools / executeProviderTool fails without sending tools/list or
\* tools/call, the session cache gains no entry for the pair, and the next call
\* for the pair performs a new initialize.
C39_FailedHandshake ==
    /\ [](\A p \in Procs :
            HandshakeFailed(p) =>
              /\ RequestsOf(p, "tools/list") = {}
              /\ RequestsOf(p, "tools/call") = {}
              /\ sessions[SessionKeyOf(p)] = "")
    /\ [][\A p \in Procs :
            /\ (frames[p].pc = "init_fetch" /\ frames'[p].pc = "failed") =>
                 (sessions' = sessions /\ handshakes' = handshakes)
            /\ (/\ frames[p].op = "idle"
                /\ GatewayFrame(p)'
                /\ frames'[p].pc # "failed"
                /\ sessions[SessionKeyOf(p)'] = "") =>
                 /\ frames'[p].pc \in {"init_token", "init_fetch"}
                 /\ frames'[p].pc = "init_fetch" => SendsInitialize(p)]_vars

\* A call whose handshake was answered with an error member has failed after
\* its one initialize request, and the pair has no session
C39_Witness ==
    \E p \in Procs :
        /\ HandshakeFailed(p)
        /\ frames[p].err = "SessionInitFailed"
        /\ frames[p].decoded.hasError
        /\ Len(frames[p].reqs) = 1
        /\ sessions[SessionKeyOf(p)] = ""

\* getToken returned null for a selected provider with OAuth in the gating
\* loop of the execute in slot p
GateFoundMissing(p) == frames[p].missingAuth # <<>>

\* No request has gone to a provider's MCP endpoint for the call in slot p
NoGatewayRequest(p) ==
    /\ frames[p].op \notin GatewayOps
    /\ frames[p].reqs = <<>>

\* C40: when getToken returns null for a selected provider that has an OAuth
\* spec, execute returns the needs-authorization signal, sends no initialize,
\* tools/list or tools/call request to any provider in that request, and
\* creates no session.
C40_GateBeforeTools ==
    /\ [](\A p \in Procs :
            GateFoundMissing(p) =>
              /\ NoGatewayRequest(p)
              /\ frames[p].pc = "responded" => NeedsAuth(p))
    /\ [][\A p \in Procs :
            GateFoundMissing(p) =>
              (sessions' = sessions /\ handshakes' = handshakes)]_vars

====
